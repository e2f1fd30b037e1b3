----------------------------- MODULE DeliverOnce -----------------------------
(***************************************************************************)
(* What the command pipeline promises of physical writes: an attempt may   *)
(* reach the field adapter once, after it has been admitted; an attempt    *)
(* with an idempotency key is admitted only while nobody owns the key, and *)
(* owns it until the key is forgotten.  CommandLifecycle implements this.  *)
(***************************************************************************)
EXTENDS Naturals

CONSTANTS Attempts, Keys, None, Lapsing

VARIABLES
  owner,   \* the attempt that owns a key
  claims,  \* the admissions <<attempt, key>>
  sent     \* the attempts that reached the adapter

vars == <<owner, claims, sent>>

Init ==
  /\ owner = [k \in Keys |-> None]
  /\ claims = {}
  /\ sent = {}

Forget(gone) == [k \in Keys |-> IF k \in gone THEN None ELSE owner[k]]

Claim(r, k, gone) ==
  /\ \A p \in claims : p[1] # r
  /\ k # None => Forget(gone)[k] = None
  /\ claims' = claims \cup {<<r, k>>}
  /\ owner' = IF k = None THEN Forget(gone) ELSE [Forget(gone) EXCEPT ![k] = r]
  /\ UNCHANGED sent

Lapse(gone) ==
  /\ owner' = Forget(gone)
  /\ UNCHANGED <<claims, sent>>

Send(r) ==
  /\ r \notin sent
  /\ \E p \in claims : p[1] = r
  /\ sent' = sent \cup {r}
  /\ UNCHANGED <<owner, claims>>

Next ==
  \/ \E gone \in SUBSET Lapsing :
       \/ Lapse(gone)
       \/ \E r \in Attempts, k \in Keys \cup {None} : Claim(r, k, gone)
  \/ \E r \in Attempts : Send(r)

Spec == Init /\ [][Next]_vars
=============================================================================
