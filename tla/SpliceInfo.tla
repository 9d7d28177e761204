----------------------------- MODULE SpliceInfo -----------------------------
(***************************************************************************)
(* Reading and copying a whole splice information section                  *)
(* (atstest/scte35.c): the command with its optional fields and the splice *)
(* descriptors.  How sections are put together from packets is             *)
(* SectionReader.                                                          *)
(***************************************************************************)
EXTENDS Bits

CONSTANTS
    NULL,
    Junk          \* what a copied component holds where its time should be, see CopiedTimes

SCHEDULE == 4
INSERT == 5
TIME_SIGNAL == 6
PRIVATE == 255

\* What a reader gives: a value and the cursor behind it.
At(v, to) == [v |-> v, to |-> to]

splice_time(c) ==
    IF Value(c, 1) = 1 THEN At([specified |-> 1, pts |-> Value(Skip(c, 7), 33)], Skip(c, 40))
    ELSE At([specified |-> 0, pts |-> 0], Skip(c, 8))

break_duration(c) == [auto_return |-> Value(c, 1), duration |-> Value(Skip(c, 7), 33)]

\* n elements of one kind, one after the other.
Adding(list, e) == At(Append(list.v, e.v), e.to)

RECURSIVE SeveralAfter(_, _, _), Element(_, _)
SeveralAfter(list, kind, n) ==
    IF n = 0 THEN list ELSE SeveralAfter(Adding(list, Element(kind, list.to)), kind, n - 1)

Several(kind, c, n) == SeveralAfter(At(<<>>, c), kind, n)

Bytes(c, n) == [i \in 1 .. n |-> Value(Skip(c, 8 * (i - 1)), 8)]

\* The list is made when there is an element to put in it.
ListOf(list) == IF list = <<>> THEN NULL ELSE list

\* A component of an insertion has a time when the splice is immediate.
Component(tag, time) == At([tag |-> tag, time |-> time.v], time.to)

insert_component(c, immediate) ==
    Component(Value(c, 8), IF immediate THEN splice_time(Skip(c, 8)) ELSE At(NULL, Skip(c, 8)))

event_component(c) == At([tag |-> Value(c, 8), time |-> Value(Skip(c, 8), 32)], Skip(c, 40))

\* The part after the flags: components, counted, when the splice is not one of the program; then
\* the duration, when there is one.
ThenDuration(list, duration) ==
    [components |-> ListOf(list.v), break |-> IF duration = 1 THEN break_duration(list.to) ELSE NULL,
     to |-> Skip(list.to, 40 * duration)]

ComponentsAndDuration(c, program, duration, kind) ==
    ThenDuration(IF program = 1 THEN At(<<>>, c) ELSE Several(kind, Skip(c, 8), Value(c, 8)), duration)

Nothing(c) == [components |-> NULL, break |-> NULL, to |-> c]

\* What insertions and events have in common; the program, and the avails, come last.
Splice(c, cancel, flags, time, rest) ==
    At([id |-> Value(c, 32), cancel |-> cancel, flags |-> flags, time |-> time, components |-> rest.components,
        break |-> rest.break, avails |-> Fields(rest.to, <<16, 8, 8>>)], Skip(rest.to, 32))

\* Flags: out, program, duration, immediate.
InsertFrom(c, f, time) ==
    Splice(c, 0, f, time.v,
           ComponentsAndDuration(time.to, f[2], f[3], IF f[4] = 1 THEN "immediate component" ELSE "component"))

InsertWith(c, f) ==
    InsertFrom(c, f, IF f[2] = 1 /\ f[4] = 0 THEN splice_time(Skip(c, 48)) ELSE At(NULL, Skip(c, 48)))

IsCancelled(c) == Value(Skip(c, 32), 1) = 1

splice_insert(c) ==
    IF IsCancelled(c) THEN Splice(c, 1, <<0, 0, 0, 0>>, NULL, Nothing(Skip(c, 40)))
    ELSE InsertWith(c, Fields(Skip(c, 40), <<1, 1, 1, 1>>))

\* Flags: out, program, duration; the time has no flag of its own.
EventWith(c, f) ==
    Splice(c, 0, f, IF f[2] = 1 THEN Value(Skip(c, 48), 32) ELSE 0,
           ComponentsAndDuration(Skip(c, 48 + 32 * f[2]), f[2], f[3], "event component"))

splice_event(c) ==
    IF IsCancelled(c) THEN Splice(c, 1, <<0, 0, 0>>, 0, Nothing(Skip(c, 40)))
    ELSE EventWith(c, Fields(Skip(c, 40), <<1, 1, 1>>))

splice_schedule(c) == Several("event", Skip(c, 8), Value(c, 8))

\* An identifier, and what the announced length has more than four bytes.
private_command(c, length) ==
    LET more == IF length > 4 THEN length - 4 ELSE 0
    IN At([identifier |-> Value(c, 32), bytes |-> Bytes(Skip(c, 32), more)], Skip(c, 32 + 8 * more))

\* The bytes are counted from after the identifier.
splice_descriptor(c) ==
    LET f == Fields(c, <<8, 8, 32>>)
    IN At([tag |-> f[1], identifier |-> f[3], bytes |-> Bytes(Skip(c, 48), f[2])], Skip(c, 48 + 8 * f[2]))

Element(kind, c) ==
    CASE kind = "component" -> insert_component(c, FALSE)
      [] kind = "immediate component" -> insert_component(c, TRUE)
      [] kind = "event component" -> event_component(c)
      [] kind = "event" -> splice_event(c)
      [] kind = "descriptor" -> splice_descriptor(c)

\* The other commands have no body, and neither has one that is not known.
Command(type, c, length) ==
    CASE type = SCHEDULE -> splice_schedule(c)
      [] type = INSERT -> splice_insert(c)
      [] type = TIME_SIGNAL -> splice_time(c)
      [] type = PRIVATE -> private_command(c, length)
      [] OTHER -> At(NULL, c)

\* From after the section length: the command is read by its type, whatever length it announces,
\* and as many descriptors are read as the loop announces bytes; an encrypted section has one
\* checksum more.
Section(f, command, descriptors, crc) ==
    [pts_adjustment |-> f[4], type |-> f[8], command |-> command, descriptors |-> ListOf(descriptors),
     crc |-> Value(crc, 32), ends |-> BytePos(Skip(crc, 32))]

AfterLoop(f, command, descriptors) == Section(f, command, descriptors.v, Skip(descriptors.to, 32 * f[2]))

AfterCommand(f, command) ==
    AfterLoop(f, command.v, Several("descriptor", Skip(command.to, 16), Value(command.to, 16)))

AfterFields(c, f) == AfterCommand(f, Command(f[8], Skip(c, 88), f[7]))

scte35_splice_info_section_read(c) == AfterFields(c, Fields(c, <<8, 1, 6, 33, 8, 12, 12, 8>>))

-----------------------------------------------------------------------------
\* Mutant: the time of the insertion is taken without the adjustment.
Unadjusted(sis) ==
    IF sis.type = INSERT /\ sis.command.time # NULL /\ sis.command.time.specified = 1
    THEN sis.command.time.pts ELSE 0

\* The getters of the checks: a time that is not given counts as 0.
get_splice_insert_PTS(sis) ==
    IF sis.type = INSERT /\ sis.command.time # NULL /\ sis.command.time.specified = 1
    THEN sis.command.time.pts + sis.pts_adjustment ELSE 0

get_splice_insert(sis) == IF sis.type = INSERT THEN sis.command ELSE NULL
get_splice_insert_eventID(sis) == IF sis.type = INSERT THEN sis.command.id ELSE 0
is_time_signal(sis) == sis.type = TIME_SIGNAL
get_time_signal(sis) == IF is_time_signal(sis) THEN sis.command ELSE NULL

\* Components are copied through a structure in which the time is a number of 32 bits, not a
\* pointer: the copy has the time, shared, where pointers have 32 bits; otherwise what is there.
CopiedTimes(time) == {time, Junk}

copy_insert_components(list) ==
    IF list = NULL THEN {NULL}
    ELSE LET times == UNION {CopiedTimes(list[i].time) : i \in DOMAIN list}
         IN {[i \in DOMAIN list |-> Component(list[i].tag, At(t[i], 0)).v] :
                t \in {u \in [DOMAIN list -> times] : \A i \in DOMAIN list : u[i] \in CopiedTimes(list[i].time)}}

\* The components of an event go through the structure they were read into.
copy_event_components(list) ==
    IF list = NULL THEN NULL ELSE [i \in DOMAIN list |-> [tag |-> list[i].tag, time |-> list[i].time]]

copy_splice_time(time) == [specified |-> time.specified, pts |-> time.pts]
copy_break_duration(break) == [auto_return |-> break.auto_return, duration |-> break.duration]

\* What the copies of insertions and events have in common.
CopyOf(s, time, components, break) ==
    [id |-> s.id, cancel |-> s.cancel, flags |-> s.flags, time |-> time, components |-> components,
     break |-> break, avails |-> s.avails]

copy_splice_insert(s) ==
    {CopyOf(s, IF s.time = NULL THEN NULL ELSE copy_splice_time(s.time), components,
            IF s.break = NULL THEN NULL ELSE copy_break_duration(s.break)) :
        components \in copy_insert_components(s.components)}

copy_splice_event(e) == CopyOf(e, e.time, copy_event_components(e.components), copy_break_duration(e.break))

copy_splice_schedule(events) == [i \in DOMAIN events |-> copy_splice_event(events[i])]

\* The duration of an event is read whether there is one or not: without it the process ends there.
Crash == [crashes |-> TRUE]
LacksDuration(type, command) == type = SCHEDULE /\ \E i \in DOMAIN command : command[i].break = NULL

copy_private_command(command) == [identifier |-> command.identifier, bytes |-> command.bytes]

\* All that the copy of a command can be.
copy_command(type, command) ==
    CASE type = SCHEDULE -> {copy_splice_schedule(command)}
      [] type = INSERT -> copy_splice_insert(command)
      [] type = TIME_SIGNAL -> {copy_splice_time(command)}
      [] type = PRIVATE -> {copy_private_command(command)}
      [] OTHER -> {NULL}

copy_splice_descriptor(d) == [tag |-> d.tag, identifier |-> d.identifier, bytes |-> d.bytes]

\* The section field by field; "ends" is of the reader and stays.  The checks copy insertions and time
\* signals only, to keep them in their lists.
scte35_splice_info_section_copy(sis) ==
    LET descriptors ==
          IF sis.descriptors = NULL THEN NULL
          ELSE [i \in DOMAIN sis.descriptors |-> copy_splice_descriptor(sis.descriptors[i])]
        With(command) == [sis EXCEPT !.command = command, !.descriptors = descriptors]
    IN IF LacksDuration(sis.type, sis.command) THEN {Crash}
       ELSE {With(command) : command \in copy_command(sis.type, sis.command)}
=============================================================================
