----------------------------- MODULE MCTestApp ------------------------------
(***************************************************************************)
(* TestApp with the threads that report: one of each kind, or the two that *)
(* move the storage of the list under each other and under main.           *)
(***************************************************************************)
EXTENDS TestApp

MCReporters == {<<"socket", 0>>, <<"preread", 0>>, <<"ingest", 0>>, <<"analysis", 0>>}
Movers      == {<<"socket", 0>>, <<"ingest", 0>>}

=============================================================================
