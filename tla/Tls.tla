-------------------------------- MODULE Tls --------------------------------
(***************************************************************************)
(* The node's certificates (tls/src/generate.rs): `lycoris setup` and the  *)
(* daemon both run ensure_tls_bundle over the same four files.  Keys are   *)
(* numbers, never used twice.  A private file is replaced atomically       *)
(* (PrivateFile), a certificate is written with fs::write: truncated       *)
(* first, filled afterwards, and Torn in between or after a crash.         *)
(***************************************************************************)
EXTENDS Integers, Sequences

CONSTANTS
  Host,           \* hosts of the advertise addresses in use
  None, Torn,     \* no such file; a file that was only truncated
  NodeValidity, CAValidity, Skew,
  MaxTime, MaxKeys, MaxCrashes

VARIABLES
  disk,           \* the four files
  proc,           \* a run of ensure_tls_bundle by "setup" and by "daemon"
  installed,      \* setup got as far as installing the service
  trusts,         \* history: the CA key and the issuer in bundles served with
  now, nextKey, crashes

vars == <<disk, proc, installed, trusts, now, nextKey, crashes>>

Process == {"setup", "daemon"}
Idle == [pc |-> "idle", todo |-> << >>, half |-> FALSE, host |-> None, now |-> 0, bundle |-> None]

Write(file, data) == [file |-> file, data |-> data]
Readable(data) == data # None /\ data # Torn

CaCert(key, at) == [key |-> key, since |-> at - Skew, until |-> at + CAValidity]
NodeCert(key, issuer, host, at) ==
  [key |-> key, issuer |-> issuer, host |-> host, since |-> at - Skew, until |-> at + NodeValidity]


(* Expired, or less than a third of the validity is left. *)
needs_renewal(cert, at) ==
  LET total == cert.until - cert.since
      remaining == cert.until - at
  IN  total <= 0 \/ remaining <= 0 \/ remaining < total \div 3

san_covers(cert, host) == cert.host = host

(* tonic's tls_config: certificates that do not parse, and a certificate   *)
(* of another key, are refused.                                            *)
Usable(b) == Readable(b.cert) /\ Readable(b.ca) /\ b.key # None /\ b.cert.key = b.key

Trust(b) == [ca |-> b.ca.key, issuer |-> b.cert.issuer]

Bundle(d, host, at) == [cert |-> d.cert, key |-> d.key, ca |-> d.ca_cert, host |-> host, at |-> at]

Run(p, run) == proc' = [proc EXCEPT ![p] = run]
Fail(p) == Run(p, Idle) /\ UNCHANGED nextKey

(* The CA key is generated here and nowhere else. *)
generate_fresh_ca_and_node(p, host) ==
  LET files == [ca_cert |-> CaCert(nextKey, now), ca_key |-> nextKey,
                cert |-> NodeCert(nextKey + 1, nextKey, host, now), key |-> nextKey + 1]
  IN  /\ nextKey' = nextKey + 2
      /\ Run(p, [Idle EXCEPT
           !.pc = "return", !.host = host, !.now = now, !.bundle = Bundle(files, host, now),
           !.todo = <<Write("ca_cert", files.ca_cert), Write("ca_key", files.ca_key),
                      Write("cert", files.cert), Write("key", files.key)>>])

(* The daemon is started by the service that setup installs. *)
ensure_tls_bundle(p, host) ==
  /\ proc[p].pc = "idle" /\ nextKey + 2 <= MaxKeys
  /\ p = "daemon" => installed
  /\ IF disk.ca_cert = None
     THEN generate_fresh_ca_and_node(p, host)
     ELSE Run(p, [Idle EXCEPT !.pc = "ca", !.host = host, !.now = now]) /\ UNCHANGED nextKey
  /\ UNCHANGED <<disk, installed, trusts>>

Renewed_NewKey(p) ==
  IF needs_renewal(disk.ca_cert, proc[p].now) THEN <<Write("ca_cert", CaCert(nextKey, proc[p].now))>> ELSE << >>

(* The CA certificate is renewed in place, with the key it has. *)
Renewed(p) ==
  IF needs_renewal(disk.ca_cert, proc[p].now) THEN <<Write("ca_cert", CaCert(disk.ca_key, proc[p].now))>> ELSE << >>

CheckCa(p) ==
  /\ proc[p].pc = "ca"
  /\ IF disk.ca_key = None \/ ~Readable(disk.ca_cert)
     THEN Fail(p)
     ELSE Run(p, [proc[p] EXCEPT !.pc = "node", !.todo = Renewed(p)]) /\ UNCHANGED nextKey
  /\ UNCHANGED <<disk, installed, trusts>>

Reissue(p) ==
  \/ disk.cert = None \/ disk.key = None \/ disk.cert = Torn
  \/ /\ Readable(disk.cert)
     /\ needs_renewal(disk.cert, proc[p].now) \/ ~san_covers(disk.cert, proc[p].host)

(* The issuer is read back from disk, the key pair is new. *)
CheckNode(p) ==
  /\ proc[p].pc = "node" /\ proc[p].todo = << >>
  /\ IF ~Readable(disk.ca_cert) THEN Fail(p)
     ELSE LET cert == NodeCert(nextKey, disk.ca_key, proc[p].host, proc[p].now)
          IN  /\ nextKey' = IF Reissue(p) THEN nextKey + 1 ELSE nextKey
              /\ Run(p, [proc[p] EXCEPT !.pc = "read",
                   !.todo = IF Reissue(p) THEN <<Write("cert", cert), Write("key", nextKey)>> ELSE << >>])
  /\ UNCHANGED <<disk, installed, trusts>>

ReadBack(p) ==
  /\ proc[p].pc = "read" /\ proc[p].todo = << >>
  /\ Run(p, [proc[p] EXCEPT !.pc = "return", !.bundle = Bundle(disk, proc[p].host, proc[p].now)])
  /\ UNCHANGED <<disk, installed, trusts, nextKey>>

(* fs::write of a certificate. *)
write_file(p) ==
  /\ proc[p].todo # << >> /\ Head(proc[p].todo).file \in {"ca_cert", "cert"}
  /\ disk' = [disk EXCEPT ![Head(proc[p].todo).file] = IF proc[p].half THEN Head(proc[p].todo).data ELSE Torn]
  /\ Run(p, [proc[p] EXCEPT !.half = ~@, !.todo = IF proc[p].half THEN Tail(@) ELSE @])
  /\ UNCHANGED <<installed, trusts, nextKey>>

write_private_file(p) ==
  /\ proc[p].todo # << >> /\ Head(proc[p].todo).file \in {"ca_key", "key"}
  /\ disk' = [disk EXCEPT ![Head(proc[p].todo).file] = Head(proc[p].todo).data]
  /\ Run(p, [proc[p] EXCEPT !.todo = Tail(@)])
  /\ UNCHANGED <<installed, trusts, nextKey>>

Returned(p) == proc[p].pc = "return" /\ proc[p].todo = << >>

(* bootstrap_node_assets drops the bundle; installing the service is what  *)
(* setup does last.                                                        *)
install_service ==
  /\ Returned("setup") /\ installed' = TRUE /\ Fail("setup")
  /\ UNCHANGED <<disk, trusts>>

(* The daemon serves until it stops, or cannot start. *)
server_config ==
  /\ Returned("daemon")
  /\ IF Usable(proc["daemon"].bundle)
     THEN trusts' = trusts \union {Trust(proc["daemon"].bundle)} /\ Run("daemon", [proc["daemon"] EXCEPT !.pc = "serve"])
     ELSE UNCHANGED trusts /\ Run("daemon", Idle)
  /\ UNCHANGED <<disk, installed, nextKey>>

Stop == proc["daemon"].pc = "serve" /\ Fail("daemon") /\ UNCHANGED <<disk, installed, trusts>>

Crash(p) ==
  /\ crashes < MaxCrashes /\ crashes' = crashes + 1
  /\ proc[p].pc # "idle" /\ Fail(p)
  /\ UNCHANGED <<disk, installed, trusts, now>>

(* The unit of time is months, a run takes seconds: none spans a tick. *)
Tick ==
  /\ \A p \in Process : proc[p].pc \in {"idle", "serve"}
  /\ now < MaxTime /\ now' = now + 1
  /\ UNCHANGED <<disk, proc, installed, trusts, nextKey, crashes>>

Step(p) ==
  \/ \E host \in Host : ensure_tls_bundle(p, host)
  \/ CheckCa(p) \/ CheckNode(p) \/ ReadBack(p) \/ write_file(p) \/ write_private_file(p)

Init ==
  /\ disk = [f \in {"ca_cert", "ca_key", "cert", "key"} |-> None]
  /\ proc = [p \in Process |-> Idle] /\ installed = FALSE
  /\ trusts = {} /\ now = 0 /\ nextKey = 1 /\ crashes = 0

Next ==
  \/ (\/ \E p \in Process : Step(p)
      \/ install_service \/ server_config \/ Stop) /\ UNCHANGED <<now, crashes>>
  \/ \E p \in Process : Crash(p)
  \/ Tick

Spec == Init /\ [][Next]_vars
-----------------------------------------------------------------------------
(* What the command line loads: the three files as they are. *)
load_tls_bundle == {b \in {Bundle(disk, None, now)} : Usable(b)}

(* Mutual TLS works across renewals, re-issues and crashes: whatever a     *)
(* daemon serves with, has served with or a client loads from disk, each   *)
(* side's CA is the issuer of the other side's certificate ("existing      *)
(* trust anchors and issued node certificates stay valid").                *)
MutualTrust == \A s, t \in trusts \union {Trust(b) : b \in load_tls_bundle} : s.ca = t.issuer

(* A daemon that starts has a third of a node certificate's validity ahead *)
(* of it: neither certificate of its chain ends earlier, although they are *)
(* checked at start-up only and another process may renew them meanwhile.  *)
ChainLasts ==
  proc["daemon"].pc = "serve" =>
    LET served == proc["daemon"].bundle
    IN  /\ served.cert.until >= served.at + NodeValidity \div 3
        /\ served.ca.until >= served.at + NodeValidity \div 3
=============================================================================
