------------------------- MODULE MCSegmentAnalysis -------------------------
(***************************************************************************)
(* Small inputs for SegmentAnalysis.                                       *)
(***************************************************************************)
EXTENDS SegmentAnalysis

\* An EBP of partition p at a PTS, as most streams have it.
Plain(pts, p) ==
    [PTS |-> pts, partitionId |-> p, SAPType |-> 1, splice |-> FALSE,
     EBP |-> [ebp_sap_flag |-> TRUE, ebp_sap_type |-> 1, ebp_acquisition_time |-> NULL],
     partition |-> [sap_type_max |-> 2, distance |-> 2]]

Timed(e, t)  == [e EXCEPT !.EBP.ebp_acquisition_time = t]
Splice(e)    == [e EXCEPT !.splice = TRUE]
Implicit(e)  == [e EXCEPT !.EBP = NULL]
NoDescriptor(e) == [e EXCEPT !.partition = NULL]
SAP(e, flag, coded, actual) ==
    [e EXCEPT !.EBP.ebp_sap_flag = flag, !.EBP.ebp_sap_type = coded, !.SAPType = actual]

On(stream, ebps) == [k \in DOMAIN ebps |-> [stream |-> stream, ebp |-> ebps[k]]]

\* Inputs of one stream: starts that differ, a missing EBP, a late one, an
\* implicit boundary, times that differ, SAP types that are wrong.
OneStream ==
    { On(1, s) : s \in {
        <<>>,
        <<Plain(1, 1), Plain(3, 1), Plain(5, 1)>>,
        <<Plain(1, 1), Plain(5, 1)>>,
        <<Plain(1, 1), Timed(Plain(3, 2), 7), Plain(3, 1)>>,
        <<Timed(Plain(3, 1), 7), Implicit(Plain(5, 1))>>,
        <<NoDescriptor(Plain(3, 1)), SAP(Plain(6, 1), TRUE, 3, 3)>>,
        <<SAP(Plain(3, 1), FALSE, 0, 3), SAP(Plain(5, 1), TRUE, 1, SAP_STREAM_TYPE_ERROR),
          SAP(Plain(7, 1), TRUE, 1, SAP_STREAM_TYPE_NOT_SUPPORTED)>> } }

OneStreamEach == [Rows -> OneStream]

\* A stream whose second EBP is that of a splice, off the distance.
SplicedStream == On(1, <<Plain(1, 1), Splice(Plain(4, 1))>>)
Spliced == [Rows -> {SplicedStream}]

EBPsOf(inputs) == UNION {{s[k].ebp : k \in DOMAIN s} : s \in inputs}
OneStreamEBPs  == EBPsOf(OneStream)
SplicedEBPs    == EBPsOf({SplicedStream})
=============================================================================
