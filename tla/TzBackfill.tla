----------------------------- MODULE TzBackfill -----------------------------
(***************************************************************************)
(* The backfill of timestamps an administrator runs by hand: the records   *)
(* of the generated tables are shifted by some hours, or shifted back, in  *)
(* one transaction over all the tables, while the integration API goes on  *)
(* writing to them.  A log table says which tables have been shifted and   *)
(* by how much.                                                            *)
(***************************************************************************)
EXTENDS Gateway, Integers

CONSTANTS
  Shifters,  \* runs of the backfill
  Hours      \* hours an apply may be told to shift by

ASSUME TzAssumption == Hours \subseteq Nat \ {0} /\ None \notin [hours : Hours, cutoff : BOOLEAN]

VARIABLES
  shifted,  \* the log table: per table, None or the hours and the cutoff applied
  moves,    \* history: the hours each record was shifted by, in order
  shifter   \* per run, how far it has come

vars == <<gatewayVars, shifted, moves, shifter>>

NewShifter == [pc |-> "new", reverse |-> FALSE, hours |-> 0, cutoff |-> FALSE, seen |-> [n \in Names |-> None],
               left |-> {}, plan |-> [c \in Calls |-> 0], entries |-> [n \in Names |-> None]]

ShifterAt(s, pc) == shifter[s].pc = pc

\* mutant: the log table is made sure of without a lock on it
EnsureLogUnlocked(s) == TRUE

\* ALTER TABLE on the log table locks it until the run commits
EnsureLog(s) == \A o \in Shifters \ {s} : ~ShifterAt(o, "shifting")

Started(reverse, h, cutoff, left) ==
  [NewShifter EXCEPT !.pc = "shifting", !.reverse = reverse, !.hours = IF reverse THEN 0 ELSE h,
     !.cutoff = cutoff, !.left = left, !.seen = shifted, !.entries = shifted]

\* reads the whole log and lists the generated tables; a dry run only counts and is left out
StartShift(s) ==
  /\ ShifterAt(s, "new")
  /\ EnsureLog(s)
  /\ Change
  /\ \E reverse, cutoff \in BOOLEAN, h \in Hours, only \in SUBSET Names :
       /\ reverse => ~cutoff
       /\ shifter' = [shifter EXCEPT ![s] = Started(reverse, h, cutoff,
            {n \in Names : tables[n] # None /\ (only # {} => n \in only)})]
  /\ UNCHANGED <<data, call, admin, plain, shifted, moves>>

\* the records an UPDATE with the cutoff finds: those written before some time
Chosen(s, n) == IF shifter[s].cutoff /\ ~shifter[s].reverse THEN SUBSET rows[n] ELSE {rows[n]}

\* one table: skipped, refused, or shifted as it stands when its UPDATE runs
ShiftTable(s) ==
  /\ ShifterAt(s, "shifting") /\ shifter[s].left # {}
  /\ LET n == CHOOSE n \in shifter[s].left : TRUE
         run == shifter[s]
         entry == run.seen[n]
         done == [run EXCEPT !.left = @ \ {n}]
         skip == IF run.reverse THEN entry = None \/ entry.cutoff ELSE entry # None
         hours == IF run.reverse THEN - entry.hours ELSE run.hours
     IN  \E chosen \in IF skip THEN {{}} ELSE Chosen(s, n) :
           shifter' = [shifter EXCEPT ![s] =
             IF skip THEN done
             ELSE [done EXCEPT
               !.plan = [c \in Calls |-> IF c \in chosen THEN hours ELSE @[c]],
               !.entries = [@ EXCEPT ![n] = IF run.reverse THEN None
                                            ELSE [hours |-> run.hours, cutoff |-> run.cutoff]]]]
  /\ UNCHANGED <<gatewayVars, shifted, moves>>

\* ON CONFLICT DO NOTHING: an entry that is there by now is kept
CommitShift(s) ==
  /\ ShifterAt(s, "shifting") /\ shifter[s].left = {}
  /\ LET run == shifter[s]
     IN  /\ moves' = [c \in Calls |-> IF run.plan[c] = 0 THEN moves[c] ELSE Append(moves[c], run.plan[c])]
         /\ shifted' = [n \in Names |->
              IF run.entries[n] = run.seen[n] THEN shifted[n]
              ELSE IF run.reverse THEN None
              ELSE IF shifted[n] = None THEN run.entries[n] ELSE shifted[n]]
  /\ shifter' = [shifter EXCEPT ![s] = [NewShifter EXCEPT !.pc = "done"]]
  /\ UNCHANGED gatewayVars

\* the administrator's session ends first: nothing of the run stays
ShiftDies(s) ==
  /\ ShifterAt(s, "shifting")
  /\ shifter' = [shifter EXCEPT ![s] = [NewShifter EXCEPT !.pc = "done"]]
  /\ UNCHANGED <<gatewayVars, shifted, moves>>

TzInit ==
  /\ Init
  /\ shifted = [n \in Names |-> None]
  /\ moves = [c \in Calls |-> <<>>]
  /\ shifter = [s \in Shifters |-> NewShifter]

Shift == \E s \in Shifters : StartShift(s) \/ ShiftTable(s) \/ CommitShift(s) \/ ShiftDies(s)

TzNext ==
  \/ GatewayNext /\ UNCHANGED <<shifted, moves, shifter>>
  \/ Shift

TzSpec == TzInit /\ [][TzNext]_vars

\* However runs of the backfill overlap each other and the calls that write
\* records, a record's hours are never added twice: what comes after an hour was
\* added takes exactly that away.
NeverShiftedTwice ==
  \A c \in Calls : \A i \in DOMAIN moves[c] :
    i > 1 /\ moves[c][i - 1] > 0 => moves[c][i] = - moves[c][i - 1]

\* What the docstring of the module says of a run over whole tables: a reverse
\* takes away what was added, so it never touches a record that was not shifted.
ReverseUndoes ==
  \A c \in Calls : moves[c] # <<>> => moves[c][1] > 0
=============================================================================
