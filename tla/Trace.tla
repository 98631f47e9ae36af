-------------------------------- MODULE Trace --------------------------------
(***************************************************************************)
(* cutils/trace.h, trace/trace.c and trace/atrace.c: threads write marks   *)
(* into the kernel's notes if their tag is enabled, and the atrace command *)
(* changes the enabled tags while they do.                                 *)
(*                                                                         *)
(* A tag is a category; the enabled tags are a set of them, and all of     *)
(* them together stand for UINT64_MAX.  Marks are told apart by what they  *)
(* do to the nesting of a thread: B begins a section, E ends one, and the  *)
(* asynchronous, instant and counter marks stand alone.                    *)
(***************************************************************************)
EXTENDS Integers, Sequences, SequencesExt, FiniteSets

CONSTANTS
    Tracers,      \* the threads that trace
    Categories,   \* the names in category_list, but for the first two
    AllTags,      \* the bits of UINT64_MAX
    Commands,     \* the argument lists atrace is called with
    MaxDepth      \* bound: how deep the sections of a thread nest

ASSUME TraceAssumption ==
    /\ Categories \subseteq AllTags
    /\ MaxDepth \in Nat \ {0}
    /\ AllTags \cap {"always", "never"} = {}
    /\ \A c \in Commands : c \in Seq(STRING) /\ c # <<>>

VARIABLES
    atrace_enabled_tags,
    command,   \* the atrace command that runs, with how far it is and its tag
    tpc,       \* what each thread is about to write
    sections,  \* the tags of the sections it is in, outermost first
    steady,    \* history: no tag has been switched since its outermost section
    opened     \* history: the depths of its open B marks since then, while steady

traceVars == <<atrace_enabled_tags, command, tpc, sections, opened, steady>>

NoCommand == [args |-> <<>>, taken |-> 0, tag |-> {}]
Marks == {"none", "B", "E", "alone"}

TraceTypeOK ==
    /\ atrace_enabled_tags \subseteq AllTags /\ command.tag \subseteq AllTags
    /\ command.args \in Commands \cup {<<>>} /\ command.taken \in 0 .. Len(command.args)
    /\ tpc \in [Tracers -> Marks]
    /\ \A t \in Tracers : Len(sections[t]) <= MaxDepth
    /\ steady \in [Tracers -> BOOLEAN]

TraceInit ==
    /\ atrace_enabled_tags = AllTags /\ command = NoCommand
    /\ tpc = [t \in Tracers |-> "none"]
    /\ sections = [t \in Tracers |-> <<>>]
    /\ opened = [t \in Tracers |-> <<>>]
    /\ steady = [t \in Tracers |-> TRUE]

-----------------------------------------------------------------------------
(* Marks *)

atrace_is_tag_enabled(tag) == tag \in atrace_enabled_tags

\* A call whose tag is enabled goes on to write its mark.
Guarded(t, tag, mark) ==
    tpc' = [tpc EXCEPT ![t] = IF atrace_is_tag_enabled(tag) THEN mark ELSE "none"]

atrace_begin(t, tag) ==
    /\ tpc[t] = "none" /\ Len(sections[t]) < MaxDepth
    /\ sections' = [sections EXCEPT ![t] = Append(@, tag)]
    /\ Guarded(t, tag, "B")
    /\ opened' = [opened EXCEPT ![t] = IF sections[t] = <<>> THEN <<>> ELSE @]
    /\ steady' = [steady EXCEPT ![t] = sections[t] = <<>> \/ @]
    /\ UNCHANGED <<atrace_enabled_tags, command>>

\* The section that atrace_end ends is the innermost one of the caller.
atrace_end_unguarded(t) ==
    /\ tpc[t] = "none" /\ sections[t] # <<>>
    /\ tpc' = [tpc EXCEPT ![t] = "E"]
    /\ UNCHANGED <<atrace_enabled_tags, command, sections, opened, steady>>
atrace_end(t) ==
    /\ tpc[t] = "none" /\ sections[t] # <<>>
    /\ IF atrace_is_tag_enabled(Last(sections[t]))
       THEN tpc' = [tpc EXCEPT ![t] = "E"] /\ UNCHANGED sections
       ELSE sections' = [sections EXCEPT ![t] = Front(@)] /\ UNCHANGED tpc
    /\ UNCHANGED <<atrace_enabled_tags, command, opened, steady>>

\* atrace_async_begin, atrace_async_end, the same for a track, atrace_instant,
\* atrace_instant_for_track, atrace_int and atrace_int64.
atrace_event(t, tag) ==
    /\ tpc[t] = "none"
    /\ Guarded(t, tag, "alone")
    /\ UNCHANGED <<atrace_enabled_tags, command, sections, opened, steady>>

\* The mark is written; an E closes the innermost B that is open.
atrace_begin_body(t) ==
    /\ tpc[t] = "B" /\ tpc' = [tpc EXCEPT ![t] = "none"]
    /\ opened' = [opened EXCEPT ![t] = IF steady[t] THEN Append(@, Len(sections[t])) ELSE @]
    /\ UNCHANGED <<atrace_enabled_tags, command, sections, steady>>

atrace_end_body(t) ==
    /\ tpc[t] = "E" /\ tpc' = [tpc EXCEPT ![t] = "none"]
    /\ sections' = [sections EXCEPT ![t] = Front(@)]
    /\ opened' = [opened EXCEPT ![t] = IF @ = <<>> THEN @ ELSE Front(@)]
    /\ UNCHANGED <<atrace_enabled_tags, command, steady>>

atrace_event_body(t) ==
    /\ tpc[t] = "alone" /\ tpc' = [tpc EXCEPT ![t] = "none"]
    /\ UNCHANGED <<atrace_enabled_tags, command, sections, opened, steady>>

TraceStep(t) ==
    \/ \E tag \in Categories : atrace_begin(t, tag) \/ atrace_event(t, tag)
    \/ atrace_end(t)
    \/ atrace_begin_body(t) \/ atrace_end_body(t) \/ atrace_event_body(t)

-----------------------------------------------------------------------------
(* The atrace command *)

Resets == {"always", "never"}

\* main calls atrace_category with its arguments.
atrace(args) ==
    /\ command = NoCommand
    /\ command' = [NoCommand EXCEPT !.args = args]
    /\ UNCHANGED <<atrace_enabled_tags, tpc, sections, opened, steady>>

\* The tags after one more argument.
Switched_only(tags, arg) ==
    IF arg = "always" THEN AllTags ELSE IF arg = "never" THEN {} ELSE {arg}
Switched(tags, arg) ==
    IF arg = "always" THEN AllTags ELSE IF arg = "never" THEN {} ELSE tags \cup {arg}

\* An argument that is not in the list is refused, and always and never may be
\* as well while no category has been looked up, because the loop then tests a
\* j that nothing has set.
Known(arg) == arg \in Resets \cup Categories
Lookup(args, i) == \E k \in 1 .. i : args[k] \notin Resets
MayRefuse(args, i) == ~Known(args[i]) \/ ~Lookup(args, i)

\* One turn of the loop of atrace_category.
atrace_argument ==
    /\ command.taken < Len(command.args)
    /\ LET i == command.taken + 1
           arg == command.args[i]
       IN \/ /\ Known(arg)
             /\ command' = [command EXCEPT !.taken = i, !.tag = Switched(@, arg)]
          \/ MayRefuse(command.args, i) /\ command' = NoCommand
    /\ UNCHANGED <<atrace_enabled_tags, tpc, sections, opened, steady>>

\* After its last turn the tags are replaced at once.  A thread that is in a
\* section then no longer traces it under the same tags from beginning to end.
atrace_category ==
    /\ command # NoCommand /\ command.taken = Len(command.args)
    /\ atrace_enabled_tags' = command.tag
    /\ steady' = [t \in Tracers |->
                     steady[t] /\ (sections[t] = <<>> \/ command.tag = atrace_enabled_tags)]
    /\ opened' = [t \in Tracers |-> IF steady'[t] THEN opened[t] ELSE <<>>]
    /\ command' = NoCommand
    /\ UNCHANGED <<tpc, sections>>

AtraceNext == (\E args \in Commands : atrace(args)) \/ atrace_argument \/ atrace_category

TraceNext == (\E t \in Tracers : TraceStep(t)) \/ AtraceNext
TraceSpec == TraceInit /\ [][TraceNext]_traceVars

-----------------------------------------------------------------------------
(* Properties *)

\* The marks of a thread nest as its sections do: while the tags have not been
\* switched since it began its outermost section, the B marks that are open
\* are those of the sections whose tag is enabled, from the outermost to the
\* innermost, so that each E mark closes the B mark of its own section,
\* whatever tags it uses inside each other.
MarksNest ==
    \A t \in Tracers :
        steady[t] /\ sections[t] # <<>> =>
            LET written == IF tpc[t] = "B" THEN Len(sections[t]) - 1 ELSE Len(sections[t])
                enabled == {d \in 1 .. written : atrace_is_tag_enabled(sections[t][d])}
            IN /\ Range(opened[t]) = enabled
               /\ \A i, j \in DOMAIN opened[t] : i < j => opened[t][i] < opened[t][j]

\* The tags that the first n arguments of a command are meant to enable: each
\* one named after the last always or never, and all of them after always.
Meant(args, n) ==
    {tag \in AllTags : \E i \in 1 .. n :
        /\ args[i] \in {tag, "always"}
        /\ \A j \in i + 1 .. n : args[j] \notin Resets}

\* The enabled tags change only to what all the arguments of the command that
\* runs mean, from the first to the last, and only if it knows all of them: a
\* command that refuses its last argument has changed nothing, and nobody ever
\* traces under half of a command.
CommandWhole ==
    [][atrace_enabled_tags' # atrace_enabled_tags =>
          /\ command.args \in Commands
          /\ \A i \in DOMAIN command.args : Known(command.args[i])
          /\ atrace_enabled_tags' = Meant(command.args, Len(command.args))]_traceVars

=============================================================================
