----------------------------- MODULE WorkQueue -----------------------------
(***************************************************************************)
(* What the enqueue/dequeue pair of a TaskStorage promises, without saying *)
(* how (src/src/storage/task-storage.ts, lines 79-109): submitted items    *)
(* form one backlog, waiting dequeuers form one line, and whenever both    *)
(* are nonempty the oldest item goes to the oldest dequeuer.  An item is   *)
(* given to one dequeuer only.  Items may be withdrawn and dequeuers may   *)
(* give up without disturbing the order of the rest.                       *)
(***************************************************************************)
EXTENDS Naturals, Sequences, SequencesExt

CONSTANTS Item, Dequeuer, Nothing

VARIABLES backlog,   \* submitted items nobody has received, oldest first
          demand,    \* dequeuers still waiting, oldest first
          outcome    \* the item each dequeuer holds, or Nothing

vars == <<backlog, demand, outcome>>

TypeOK == /\ backlog \in Seq(Item)
          /\ demand \in Seq(Dequeuer)
          /\ outcome \in [Dequeuer -> Item \cup {Nothing}]

Init == /\ backlog = <<>>
        /\ demand = <<>>
        /\ outcome = [d \in Dequeuer |-> Nothing]

(* Pair the items of b with the dequeuers of d, in order, as far as both   *)
(* reach; keep the two remainders.  held is what is held beforehand.       *)
Settle(b, d, held) ==
  LET paired == IF Len(b) < Len(d) THEN Len(b) ELSE Len(d)
  IN  /\ backlog' = SubSeq(b, paired + 1, Len(b))
      /\ demand'  = SubSeq(d, paired + 1, Len(d))
      /\ outcome' = [w \in Dequeuer |->
                       IF \E i \in 1..paired : d[i] = w
                       THEN b[CHOOSE i \in 1..paired : d[i] = w]
                       ELSE held[w]]

Submit(item) == Settle(Append(backlog, item), demand, outcome)

(* Asking for the next item ends the use of the one before.                *)
Ask(d) ==
  /\ \A i \in DOMAIN demand : demand[i] # d
  /\ Settle(backlog, Append(demand, d), [outcome EXCEPT ![d] = Nothing])

Use(d) ==
  /\ outcome[d] # Nothing
  /\ outcome' = [outcome EXCEPT ![d] = Nothing]
  /\ UNCHANGED <<backlog, demand>>

GiveUp(i) ==
  /\ demand' = RemoveAt(demand, i)
  /\ UNCHANGED <<backlog, outcome>>

(* n of the items stay, in their order.                                    *)
Withdraw(n) ==
  /\ \E pos \in [1..n -> DOMAIN backlog] :
        /\ \A i, j \in 1..n : i < j => pos[i] < pos[j]
        /\ backlog' = [i \in 1..n |-> backlog[pos[i]]]
  /\ UNCHANGED <<demand, outcome>>

Next ==
  \/ \E item \in Item : Submit(item)
  \/ \E d \in Dequeuer : Ask(d) \/ Use(d)
  \/ \E i \in DOMAIN demand : GiveUp(i)
  \/ \E n \in 0..Len(backlog) : Withdraw(n)

Spec == Init /\ [][Next]_vars
=============================================================================
