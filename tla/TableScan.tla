------------------------------- MODULE TableScan -------------------------------
(***************************************************************************)
(* What a LevelDB table promises to those who iterate it: once it is       *)
(* sealed, every iteration gives its entries, all of them, each once and   *)
(* in order, however many iterations run side by side.                     *)
(***************************************************************************)
EXTENDS Sequences, Naturals

CONSTANTS
  Readers,      (* the iterations                                          *)
  Entries       (* what a table may hold                                   *)

VARIABLES
  table,        (* the entries, in order                                   *)
  sealed,       (* no entry is added any more                              *)
  given         (* what each iteration has given so far                    *)

Init ==
  /\ table = <<>> /\ sealed = FALSE
  /\ given = [r \in Readers |-> <<>>]

Add(e) ==
  /\ ~sealed
  /\ table' = Append(table, e)
  /\ UNCHANGED <<sealed, given>>

Seal ==
  /\ ~sealed
  /\ sealed' = TRUE
  /\ UNCHANGED <<table, given>>

Begin(r) ==
  /\ sealed
  /\ given' = [given EXCEPT ![r] = <<>>]
  /\ UNCHANGED <<table, sealed>>

Give(r) ==
  /\ sealed /\ Len(given[r]) < Len(table)
  /\ given' = [given EXCEPT ![r] = Append(@, table[Len(@) + 1])]
  /\ UNCHANGED <<table, sealed>>

Next ==
  \/ \E e \in Entries : Add(e)
  \/ Seal
  \/ \E r \in Readers : Begin(r) \/ Give(r)

Spec == Init /\ [][Next]_<<table, sealed, given>>
=============================================================================
