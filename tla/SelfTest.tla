------------------------------ MODULE SelfTest ------------------------------
(***************************************************************************)
(* self_test of src/examples/gatekeeper.rs: one process whose main thread  *)
(* takes a fresh path, serves one connection and joins the client thread,  *)
(* which waits for the path to exist, connects, and talks.  The two meet   *)
(* on the path only, that is on module SocketPath.  The deadlines of the   *)
(* client, 20 seconds each, are left out: the main thread is never that    *)
(* late here.  Daemon is the one process, and its uid is on its gate.      *)
(***************************************************************************)
EXTENDS SocketPath, Authorization

CONSTANTS
  OwnUid,    \* what nix_uid returns
  UidRange   \* how many uids there are

VARIABLES
  client,  \* the client thread: what it does next, or what it returned
  conn,    \* its connection
  main     \* self_test: in serve, in join, or what it returned

selfTestVars == <<vars, client, conn, main>>

\* "And the gate is real": it refuses the unreadable, and the next uid.
GateIsReal ==
  LET gate == ForUids({OwnUid})
      stranger == [uid |-> (OwnUid + 1) % UidRange, gid |-> 0]
  IN  ~authorize(gate, Unreadable) /\ ~authorize(gate, stranger)

\* The directory is new: nothing is at the path.
SelfTestInit ==
  /\ Init
  /\ path = "free"
  /\ client = "wait"
  /\ conn = "none"
  /\ main = "serve"

-----------------------------------------------------------------------------

\* The loop around exists(), with its sleep.
ClientWaits ==
  /\ client = "wait"
  /\ ~NamesNothing
  /\ client' = "connect"
  /\ UNCHANGED <<vars, conn, main>>

\* UnixStream::connect, once, and its `?`; then the request and the half-close.
ClientConnects ==
  /\ client = "connect"
  /\ IF Accepts
       THEN client' = "read" /\ conn' = "queued"
       ELSE client' = "Err" /\ UNCHANGED conn
  /\ UNCHANGED <<vars, main>>

\* read_to_string sees the end of the reply, or of the connection.
ClientReads ==
  /\ client = "read"
  /\ conn \in {"answered", "dropped"}
  /\ client' = "Ok"
  /\ UNCHANGED <<vars, conn, main>>

\* serve's Socket::bind, which returns the Socket or the error that ends
\* self_test.
MainBinds(d) ==
  /\ main = "serve"
  /\ Exists(d) \/ BindStep(d) \/ (pc[d] = "closing" /\ CloseListener(d))
  /\ main' = IF pc'[d] = "down" THEN "Err" ELSE main
  /\ UNCHANGED <<client, conn>>

\* serve's loop: only a connection that was accepted and answered is counted
\* against the limit of one, after which the Socket is dropped.
MainServes(d) ==
  /\ main = "serve"
  /\ pc[d] = "serving"
  /\ conn = "queued"
  /\ \/ Drop(d) /\ conn' = "answered" /\ main' = "join"
     \/ Fault /\ conn' = "dropped" /\ UNCHANGED <<pc, path, mode, group, warned,
                                                 outcome, crashes, main>>
  /\ UNCHANGED client

MainDropsListener(d) ==
  /\ main = "join"
  /\ CloseListener(d)
  /\ UNCHANGED <<client, conn, main>>

\* client.join() and its `?`, whether the reply says what it should, and the
\* two checks of the gate.
MainJoins(d) ==
  /\ main = "join"
  /\ pc[d] = "down"
  /\ client \in {"Ok", "Err"}
  /\ main' = IF client = "Ok" /\ conn = "answered" /\ GateIsReal THEN "Ok" ELSE "Err"
  /\ UNCHANGED <<vars, client, conn>>

Client == ClientWaits \/ ClientConnects \/ ClientReads

Main ==
  \E d \in Daemon :
    MainBinds(d) \/ MainServes(d) \/ MainDropsListener(d) \/ MainJoins(d)

\* Both threads run.
SelfTestSpec ==
  /\ SelfTestInit /\ [][Client \/ Main]_selfTestVars
  /\ WF_selfTestVars(Client) /\ WF_selfTestVars(Main)

-----------------------------------------------------------------------------

\* "--self-test runs both halves in one process and exits", one way or the
\* other.
SelfTestExits == <>(main \in {"Ok", "Err"})

=============================================================================
