------------------------------ MODULE MCProbes ------------------------------
(* Small instances of the probes *)
EXTENDS Probes

\* Threads 3 and 4 of the processes 1 and 2, each of the user with the other's number
MCOwner0 == [t \in {3, 4} |-> t - 2]
MCUid    == [p \in {1, 2} |-> IF p = 1 THEN 2 ELSE 1]

Tls(functions, strict, pid, uid, session, comm, handshake, n) ==
  [functions |-> functions, strict |-> strict, pid |-> pid, uid |-> uid,
   session |-> session, comm |-> comm, handshake |-> handshake, calls |-> n]

\* A binary's functions of both kinds, and more calls of one; the system's library
\* for the processes of a user in a session, with handshakes; and for one process
\* by name.
MCTls == {Tls(<<"SSL_write", "SSL_read_ex">>, TRUE, AnyId, AnyId, FALSE, FALSE, FALSE, 2),
          Tls(<<"SSL_write">>, TRUE, AnyId, AnyId, FALSE, FALSE, FALSE, 3),
          Tls(<<"SSL_write", "SSL_do_handshake">>, FALSE, AnyId, 2, TRUE, FALSE, TRUE, 2),
          Tls(<<"SSL_do_handshake", "SSL_read">>, TRUE, 1, AnyId, FALSE, TRUE, TRUE, 2)}

\* -c "python" -u 1000 -h, of src/bpf/README.md:144
MCHandshakes == {Tls(<<"SSL_do_handshake">>, TRUE, AnyId, 2, FALSE, TRUE, TRUE, 2)}

\* A session whose processes write to stdout, and one process whose calls in
\* both directions use a selected descriptor and another.
MCStdio ==
  {[session |-> TRUE, pid |-> 0, allFds |-> FALSE, traffic |-> {1, 2, 3} \X {"write"} \X {1}],
   [session |-> FALSE, pid |-> 1, allFds |-> FALSE, traffic |-> {1} \X {"read", "write"} \X {1, 3}]}

\* Firefox beside another program, observed both or by its user alone; Firefox
\* on its own, which ends while another program begins; and two Chromium
\* processes and another program, with more PIDs than the cache holds.
Browser(backend, hooked, allowed, exe, n, changing) ==
  [backend |-> backend, hooked |-> hooked, allowed |-> allowed, exe |-> exe,
   functions |-> <<"PR_Write", "PR_Read">>, calls |-> n, changes |-> changing]
MCBrowser ==
  {Browser("nss", {1, 2, 3}, {1, 2, 3}, <<"target", "other", "gone">>, 2, 0),
   Browser("nss", {1, 2, 3}, {1}, <<"target", "other", "gone">>, 2, 0),
   Browser("nss", {1}, {1}, <<"target", "gone", "gone">>, 2, 1),
   Browser("chromium", {1, 2, 3}, {1, 2, 3}, <<"target", "other", "target">>, 4, 2)}
=============================================================================
