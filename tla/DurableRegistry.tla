--------------------------- MODULE DurableRegistry ---------------------------
(***************************************************************************)
(* What the authorization store of a cluster promises.  checkpoint[n] is   *)
(* the table of records on n's disk.  A checkpoint is founded with the     *)
(* node's own genesis, grows by a record the node signs itself or by       *)
(* records some other checkpoint holds, and is replaced only once, when a  *)
(* node that is alone joins a cluster.                                     *)
(***************************************************************************)
EXTENDS Authorization

VARIABLE checkpoint

\* The node whose key signed a record.
author(r) == r.authorizer.key[1]

Init == checkpoint = [n \in Node |-> {}]

Found(n) ==
  /\ checkpoint[n] = {}
  /\ checkpoint' = [checkpoint EXCEPT ![n] = {genesis(n)}]

\* n signs a record at the end of one of its action chains.
Sign(n) ==
  \E r \in checkpoint'[n] :
    /\ r.authorizer # None /\ author(r) = n
    /\ \A x \in checkpoint[n] : x.authorizer = r.authorizer => x.action # r.action
    /\ checkpoint' = [checkpoint EXCEPT ![n] = @ \union {r}]

\* n stores records that are in m's checkpoint.
Learn(n, m) ==
  \E S \in SUBSET checkpoint[m] :
    checkpoint' = [checkpoint EXCEPT ![n] = @ \union S]

\* n, alone so far, takes over m's checkpoint.
Adopt(n, m) ==
  /\ checkpoint[n] = {genesis(n)}
  /\ \E S \in SUBSET checkpoint[m] :
       checkpoint' = [checkpoint EXCEPT ![n] = S]

Next ==
  \/ \E n \in Node : Found(n) \/ Sign(n)
  \/ \E n, m \in Node : Learn(n, m) \/ Adopt(n, m)

Spec == Init /\ [][Next]_checkpoint
-----------------------------------------------------------------------------
\* Nothing a node signed is known anywhere before it is on the node's own disk.
Authored ==
  \A n \in Node : \A r \in checkpoint[n] :
    r.authorizer # None => r \in checkpoint[author(r)]

\* No node signs twice at the same point of its action chain.
NoFork ==
  \A n, m \in Node : \A r \in checkpoint[n], x \in checkpoint[m] :
    /\ r.authorizer # None /\ r.authorizer = x.authorizer /\ r.action = x.action
    => r = x
=============================================================================
