----------------------------- MODULE Gatekeeper -----------------------------
(***************************************************************************)
(* One connection at a time: the serve loop and answer of                  *)
(* src/examples/gatekeeper.rs over Socket::accept, PeerGate and Operation, *)
(* with its clients, who may change credentials, write slowly or not at    *)
(* all, stop reading, or hang up between any two steps of the daemon, and  *)
(* with crashes.  Each client makes one connection.  The stamps on the     *)
(* ServeActivity are module Watchdog's.                                    *)
(***************************************************************************)
EXTENDS Authorization, Naturals, Sequences

CONSTANTS
  Client,
  Probe,        \* the clients that connect and drop, as a successor's bind does
  Nobody,       \* no client
  Cred,         \* credentials: records of a uid and a gid
  Configs,      \* the ways to put a daemon together
  Backlog,      \* how many connections wait in the listener's queue
  MaxFaults,    \* bound on the socket calls that fail for an outside reason
  MaxCrashes    \* bound on the crashes of the daemon

\* SocketConfig::new, changed by with_request_read_timeout, with what the daemon
\* serves: its authorizer, its one call, and whether set_accept_timeout armed
\* the listener.
Daemon(authorizer, call, request_read_timeout, armed) ==
  [authorizer |-> authorizer, call |-> call,
   request_read_timeout |-> request_read_timeout, armed |-> armed]

ASSUME GatekeeperAssumption ==
  /\ Probe \subseteq Client
  /\ Nobody \notin Client
  /\ Unreadable # InProcess
  /\ {Unreadable, InProcess} \cap Cred = {}
  /\ \A d \in Configs :
       /\ d.authorizer.kind \in {"AllowSocketPeers", "DenyAll", "PeerGate"}
       /\ d.call \in {Gated, Unprivileged}
       /\ d.request_read_timeout \in {"None", "zero", "Some"}
       /\ d.armed \in BOOLEAN
  /\ {Backlog, MaxFaults, MaxCrashes} \subseteq Nat

VARIABLES
  config,   \* how this daemon is put together
  cred,     \* cred[c]: the credentials of client c's process
  peer,     \* peer[c]: those the kernel took down at connect(2)
  conn,     \* conn[c]: where c's connection is
  hungup,   \* hungup[c]: c has closed its end
  sent,     \* sent[c]: what c has written that nobody has read: nothing, some of its
            \* request, or all of it, with its writing half shut down
  reads,    \* reads[c]: c's reply fits the socket's buffer, or c reads it
  queue,    \* the listener's queue
  pc, cur, caller, deadline, label, failed,  \* the daemon: the loop's locals
  journal,  \* the audit lines, the refusals and the starts on stderr; the
            \* connection of each is there for the properties
  named,    \* the name NSS has for the callers, once the memo has it, or "none"
  answered, \* the clients whose request was answered
  spoken_to,\* the clients the daemon has written, or tried to write, bytes to
  faults, crashes

clients == <<cred, peer, conn, hungup, sent, reads>>
request == <<cur, caller, deadline, label, failed>>
told == <<journal, answered, spoken_to>>
bounds == <<faults, crashes>>
vars == <<config, clients, queue, pc, request, told, named, bounds>>

\* A name from a directory may hold a line break.
AccountName == {"one_line", "two_lines"}

NoLabel == [who |-> Unreadable, name |-> "none"]

Label == [who : Cred \cup {Unreadable}, name : {"none", "one_line"}]

Init ==
  /\ config \in Configs
  /\ cred \in [Client -> Cred]
  /\ peer = cred
  /\ conn = [c \in Client |-> "out"]
  /\ hungup = [c \in Client |-> FALSE]
  /\ sent = [c \in Client |-> "nothing"]
  /\ reads = [c \in Client |-> FALSE]
  /\ queue = <<>>
  /\ pc = "down"
  /\ cur = Nobody
  /\ caller = Unreadable
  /\ deadline = "none"
  /\ label = NoLabel
  /\ failed = FALSE
  /\ journal = <<>>
  /\ named = "none"
  /\ answered = {}
  /\ spoken_to = {}
  /\ faults = 0
  /\ crashes = 0

TypeOK ==
  /\ config \in Configs
  /\ cred \in [Client -> Cred] /\ peer \in [Client -> Cred]
  /\ conn \in [Client -> {"out", "queued", "open", "closed"}]
  /\ hungup \in [Client -> BOOLEAN]
  /\ sent \in [Client -> {"nothing", "some", "all"}]
  /\ reads \in [Client -> BOOLEAN]
  /\ queue \in Seq(Client) /\ Len(queue) <= Backlog
  /\ pc \in {"down", "accept", "of_socket", "set_read_timeout", "authorize",
             "begin", "read", "reply", "finish"}
  /\ cur \in Client \cup {Nobody}
  /\ caller \in Cred \cup {Unreadable}
  /\ deadline \in {"none", "heartbeat", "request"}
  /\ label \in Label
  /\ failed \in BOOLEAN /\ named \in {"none", "one_line"}
  /\ answered \subseteq Client /\ spoken_to \subseteq Client
  /\ faults \in 0 .. MaxFaults /\ crashes \in 0 .. MaxCrashes

-----------------------------------------------------------------------------
(***************************************************************************)
(* The clients, external.                                                  *)
(***************************************************************************)

\* connect(2) waits for room in the queue and takes the credentials down.
Connect(c) ==
  /\ conn[c] = "out"
  /\ pc # "down"
  /\ Len(queue) < Backlog
  /\ conn' = [conn EXCEPT ![c] = "queued"]
  /\ peer' = [peer EXCEPT ![c] = cred[c]]
  /\ queue' = Append(queue, c)
  /\ UNCHANGED <<cred, hungup, sent, reads>>

Connected(c) == conn[c] \in {"queued", "open"} /\ ~hungup[c]

\* setuid, or an exec that changes credentials.
ChangeCred(c) ==
  /\ Connected(c)
  /\ \E new \in Cred : cred' = [cred EXCEPT ![c] = new]
  /\ UNCHANGED <<peer, conn, hungup, sent, reads, queue>>

\* A client writes some of its request, or what is left of it and the end.  (How
\* much there is to write is left open: it may trickle in for ever.)
WriteRequest(c) ==
  /\ Connected(c)
  /\ c \notin Probe
  /\ \/ sent[c] = "nothing" /\ sent' = [sent EXCEPT ![c] = "some"]
     \/ sent[c] # "all" /\ sent' = [sent EXCEPT ![c] = "all"]
  /\ UNCHANGED <<cred, peer, conn, hungup, reads, queue>>

\* The client reads its reply; or the reply is short, and needs no reading for
\* the daemon to get on.
ReadReply(c) ==
  /\ Connected(c)
  /\ c \notin Probe
  /\ ~reads[c]
  /\ reads' = [reads EXCEPT ![c] = TRUE]
  /\ UNCHANGED <<cred, peer, conn, hungup, sent, queue>>

HangUp(c) ==
  /\ Connected(c)
  /\ hungup' = [hungup EXCEPT ![c] = TRUE]
  /\ UNCHANGED <<cred, peer, conn, sent, reads, queue>>

ClientStep(c) ==
  /\ Connect(c) \/ ChangeCred(c) \/ WriteRequest(c) \/ ReadReply(c) \/ HangUp(c)
  /\ UNCHANGED <<config, pc, request, told, named, bounds>>

\* Line breaks become spaces.  (The bound on the length is left out.)
sanitize(name) == IF name \in AccountName THEN "one_line" ELSE name

\* A lookup of the callers' account names succeeds for the first time.
NameResolves ==
  /\ named = "none"
  /\ \E name \in AccountName : named' = sanitize(name)
  /\ UNCHANGED <<config, clients, queue, pc, request, told, bounds>>

-----------------------------------------------------------------------------
(***************************************************************************)
(* The daemon.                                                             *)
(***************************************************************************)

\* What follows a line break in a name is a line of its own.
Say(line, by) ==
  LET said(l) == [line |-> l, conn |-> cur, by |-> by]
  IN  journal' = journal \o (IF by.name = "two_lines"
                               THEN <<said(line), said("rest_of_a_name")>>
                               ELSE <<said(line)>>)

\* The locals of a turn of the loop go out of scope.
ForgetRequest ==
  /\ cur' = Nobody
  /\ caller' = Unreadable
  /\ deadline' = "none"
  /\ label' = NoLabel
  /\ failed' = FALSE

\* Connections that are closed need nothing remembered of their clients.
ForgetClients(gone) ==
  /\ conn' = [c \in Client |-> IF c \in gone THEN "closed" ELSE conn[c]]
  /\ cred' = [c \in Client |-> IF c \in gone THEN peer[c] ELSE cred[c]]
  /\ hungup' = [c \in Client |-> c \notin gone /\ hungup[c]]
  /\ sent' = [c \in Client |-> IF c \in gone THEN "nothing" ELSE sent[c]]
  /\ reads' = [c \in Client |-> c \in gone \/ reads[c]]
  /\ UNCHANGED peer

\* The stream is closed with them, and the loop turns.
Close ==
  /\ pc' = "accept"
  /\ ForgetClients({cur})
  /\ ForgetRequest

\* A socket call on the connection fails for a reason outside the model.
Fault ==
  /\ faults < MaxFaults
  /\ faults' = faults + 1

\* <Caller as Display>::fmt: the credentials, and the name as well as NSS can
\* tell it at the time.
Display(who) == [who |-> who, name |-> IF who = Unreadable THEN "none" ELSE named]

\* The label of an operation: the call and its action are the same for all.
Describe == Display(caller)

\* Operation::is_audited: the operation of a gated call, which has a label.
is_audited == config.call = Gated

-----------------------------------------------------------------------------
(***************************************************************************)
(* Mistakes the properties must notice, each the mutant of one definition. *)
(***************************************************************************)

\* A caller that could not be read is none at all.
OfSocketNone ==
  /\ pc = "of_socket"
  /\ pc' = "set_read_timeout"
  /\ \/ caller' = peer[cur] /\ UNCHANGED faults
     \/ caller' = Nobody /\ Fault
  /\ UNCHANGED <<clients, queue, cur, deadline, label, failed, told, crashes>>

\* The credentials are those of the process as it is now.
OfSocketNow ==
  /\ pc = "of_socket"
  /\ pc' = "set_read_timeout"
  /\ caller' = cred[cur]
  /\ UNCHANGED <<clients, queue, cur, deadline, label, failed, told, bounds>>

\* The deadline is left as the listener's was.
SetReadTimeoutInherited ==
  /\ pc = "set_read_timeout"
  /\ pc' = "authorize"
  /\ UNCHANGED <<clients, queue, request, told, bounds>>

\* Clearing the inherited deadline is taken for setting the request's.
SetReadTimeoutCleared ==
  /\ pc = "set_read_timeout"
  /\ deadline' = "none"
  /\ pc' = "authorize"
  /\ UNCHANGED <<clients, queue, cur, caller, label, failed, told, bounds>>

\* exchange's error returns from answer, past Operation::finish.
ReplyReturnsEarly ==
  /\ pc = "reply"
  /\ \/ hungup[cur] /\ Close /\ UNCHANGED answered
     \/ /\ ~hungup[cur]
        /\ reads[cur]
        /\ failed' = FALSE
        /\ answered' = answered \cup {cur}
        /\ pc' = "finish"
        /\ UNCHANGED <<clients, cur, caller, deadline, label>>
  /\ spoken_to' = spoken_to \cup {cur}
  /\ UNCHANGED <<queue, journal, bounds>>

\* What failed is tried again.
FinishRetries ==
  /\ pc = "finish"
  /\ Say(IF failed THEN "failed" ELSE "ok", label)
  /\ IF failed THEN pc' = "begin" /\ UNCHANGED <<clients, request>> ELSE Close
  /\ UNCHANGED <<queue, answered, spoken_to, bounds>>

\* The completion line renders the caller again.
FinishRendersAgain ==
  /\ pc = "finish"
  /\ Say(IF failed THEN "failed" ELSE "ok", Describe)
  /\ Close
  /\ UNCHANGED <<queue, answered, spoken_to, bounds>>

-----------------------------------------------------------------------------

\* Socket::bind has returned; the loop starts with a line of its own.
Start ==
  /\ pc = "down"
  /\ pc' = "accept"
  /\ Say("serving", NoLabel)
  /\ UNCHANGED <<clients, queue, request, answered, spoken_to, bounds>>

\* listener.accept(): the stream inherits the listener's SO_RCVTIMEO.
Accept ==
  /\ pc = "accept"
  /\ queue # <<>>
  /\ cur' = Head(queue)
  /\ queue' = Tail(queue)
  /\ conn' = [conn EXCEPT ![Head(queue)] = "open"]
  /\ deadline' = IF config.armed THEN "heartbeat" ELSE "none"
  /\ pc' = "of_socket"
  /\ UNCHANGED <<cred, peer, hungup, sent, reads, caller, label, failed,
                 told, bounds>>

\* Caller::of_socket never fails: it is Unreadable instead.
OfSocket ==
  /\ pc = "of_socket"
  /\ pc' = "set_read_timeout"
  /\ \/ caller' = peer[cur] /\ UNCHANGED faults
     \/ caller' = Unreadable /\ Fault
  /\ UNCHANGED <<clients, queue, cur, deadline, label, failed, told, crashes>>

\* A failure to set the deadline is accept's error, and drops the stream; a
\* deadline of no time at all is always refused.
SetReadTimeout ==
  /\ pc = "set_read_timeout"
  /\ \/ /\ config.request_read_timeout # "zero"
        /\ deadline' = IF config.request_read_timeout = "Some" THEN "request" ELSE "none"
        /\ pc' = "authorize"
        /\ UNCHANGED <<clients, cur, caller, label, failed, faults>>
     \/ config.request_read_timeout = "zero" /\ Close /\ UNCHANGED faults
     \/ Fault /\ Close
  /\ UNCHANGED <<queue, told, crashes>>

\* A refusal is written to the client, gone or not, and the request not read.
Authorize ==
  /\ pc = "authorize"
  /\ \/ /\ authorize(config.authorizer, caller)
        /\ pc' = "begin"
        /\ UNCHANGED <<clients, request, journal, spoken_to>>
     \/ /\ ~authorize(config.authorizer, caller)
        /\ Say("refused", Display(caller))
        /\ spoken_to' = spoken_to \cup {cur}
        /\ Close
  /\ UNCHANGED <<queue, answered, bounds>>

\* Operation::begin keeps the line it announced itself with; that of an
\* unprivileged call writes none.
Begin ==
  /\ pc = "begin"
  /\ IF is_audited
       THEN label' = Describe /\ Say("begin", Describe)
       ELSE UNCHANGED <<label, journal>>
  /\ pc' = "read"
  /\ UNCHANGED <<clients, queue, cur, caller, deadline, failed, answered,
                 spoken_to, bounds>>

\* exchange: each read(2) of read_to_end sees the end of what the client wrote,
\* or some bytes, and is followed by another with the whole deadline to itself,
\* or no byte within the deadline.
Read ==
  /\ pc = "read"
  /\ \/ /\ sent[cur] = "all" \/ hungup[cur]
        /\ pc' = "reply"
        /\ UNCHANGED <<sent, failed>>
     \/ /\ sent[cur] = "some" /\ ~hungup[cur]
        /\ sent' = [sent EXCEPT ![cur] = "nothing"]
        /\ UNCHANGED <<pc, failed>>
     \/ /\ sent[cur] = "nothing" /\ ~hungup[cur]
        /\ deadline # "none"
        /\ failed' = TRUE
        /\ pc' = "finish"
        /\ UNCHANGED sent
  /\ UNCHANGED <<cred, peer, conn, hungup, reads, queue, cur, caller, deadline,
                 label, told, bounds>>

\* exchange: the reply is written to a client that has hung up, or into the
\* socket's buffer; if it is too long for that, when the client reads.
Reply ==
  /\ pc = "reply"
  /\ \/ hungup[cur] /\ failed' = TRUE /\ UNCHANGED answered
     \/ /\ ~hungup[cur]
        /\ reads[cur]
        /\ failed' = FALSE
        /\ answered' = answered \cup {cur}
  /\ spoken_to' = spoken_to \cup {cur}
  /\ pc' = "finish"
  /\ UNCHANGED <<clients, queue, cur, caller, deadline, label, journal, bounds>>

\* Operation::finish, the end of answer, and of the stream.
Finish ==
  /\ pc = "finish"
  /\ IF is_audited
       THEN Say(IF failed THEN "failed" ELSE "ok", label)
       ELSE UNCHANGED journal
  /\ Close
  /\ UNCHANGED <<queue, answered, spoken_to, bounds>>

DaemonStep ==
  /\ \/ Start \/ Accept \/ OfSocket \/ SetReadTimeout \/ Authorize \/ Begin
     \/ Read \/ Reply \/ Finish
  /\ UNCHANGED <<config, named>>

\* The process dies, and with it every connection and the memo of names.
Crash ==
  /\ pc # "down"
  /\ crashes < MaxCrashes
  /\ crashes' = crashes + 1
  /\ pc' = "down"
  /\ queue' = <<>>
  /\ ForgetClients({c \in Client : conn[c] # "out"})
  /\ ForgetRequest
  /\ named' = "none"
  /\ UNCHANGED <<config, told, faults>>

Next ==
  \/ \E c \in Client : ClientStep(c)
  \/ NameResolves
  \/ DaemonStep
  \/ Crash

Spec == Init /\ [][Next]_vars

\* The daemon's thread runs and its deadlines fire, NSS answers it, and a dead
\* daemon is restarted.  Clients owe nothing: they need not write, end their
\* request, read, or hang up.
Fairness == WF_vars(DaemonStep)

FairSpec == Spec /\ Fairness

-----------------------------------------------------------------------------

Lines == DOMAIN journal

\* Every completion line directly follows the announcement of the same
\* operation, in the same words; only the operation in flight, and one a crash
\* ended, have an announcement without a completion.  No name breaks a line.
JournalIsBracketed ==
  \A i \in Lines :
    /\ journal[i].line \in {"ok", "failed"} =>
         i > 1 /\ journal[i - 1] = [journal[i] EXCEPT !.line = "begin"]
    /\ journal[i].line = "begin" =>
         IF i = Len(journal)
           THEN pc \in {"read", "reply", "finish", "down"}
           ELSE journal[i + 1].line \in {"ok", "failed", "serving"}

\* A line attributes its connection to the credentials the client had when it
\* connected, whatever it has become since, or says that they are unreadable.
AttributedToConnector ==
  \A i \in Lines :
    journal[i].line # "serving" =>
      journal[i].by.who \in {peer[journal[i].conn], Unreadable}

\* Whom the authorizers' own words let in: everyone, nobody, or who is on a list;
\* and with a gate that takes the unreadable, anyone the kernel fails to report.
MayBeAdmitted(c) ==
  LET authorizer == config.authorizer
  IN  \/ authorizer.kind = "AllowSocketPeers"
      \/ /\ authorizer.kind = "PeerGate"
         /\ \/ peer[c].uid \in authorizer.allowed_uids
            \/ peer[c].gid \in authorizer.allowed_gids
            \/ ~authorizer.reject_unreadable_caller

\* No client is served that the authorizer refuses, whatever fails on the way:
\* if it refuses the unreadable, only those it admits by the credentials they
\* connected with.  A gated call is on the record before it is worked on; a
\* call that is not gated, or is refused, never is.
WorkIsAnnounced ==
  LET begun == {journal[i].conn : i \in {i \in Lines : journal[i].line = "begin"}}
      worked == answered \cup (IF pc \in {"read", "reply", "finish"} THEN {cur} ELSE {})
  IN  /\ \A c \in worked \cup begun : MayBeAdmitted(c)
      /\ config.call = Gated => worked \subseteq begun
      /\ config.call = Unprivileged => begun = {}

\* A connection has one fate, and the journal tells it once, whatever fails and
\* however often the daemon dies: it is refused, and then never answered, or it
\* is worked for, and then never again, a failed operation included.
OneFate ==
  LET fates == {i \in Lines : journal[i].line \in {"refused", "begin"}}
  IN  /\ \A i, j \in fates : journal[i].conn = journal[j].conn => i = j
      /\ \A i \in fates :
           journal[i].line = "refused" => journal[i].conn \notin answered

\* A request is read under the deadline that was asked for, or under none if
\* that was; never under the heartbeat's, and never at all if the deadline was
\* refused.
DeadlineIsTheRequests ==
  pc = "read" =>
    deadline = CASE config.request_read_timeout = "Some" -> "request"
                 [] config.request_read_timeout = "None" -> "none"
                 [] OTHER -> "refused"

\* The three ways in which a client can keep the daemon for good: it writes
\* nothing and the deadline was cleared, it does not read a reply that is too long
\* for the socket's buffer, or it never lets a deadline pass without a byte.
HeldBySilence == pc = "read" /\ config.request_read_timeout = "None"
HeldByReply == pc = "reply" /\ ~reads[cur]
TricklesOn == pc = "read" /\ sent[cur] = "some"

\* There is no fourth: unless a client holds the daemon in one of these ways for
\* good, no connection stays in the queue or open for good, but is answered,
\* refused, timed out or dropped.  No silence outlasts a deadline, a refused
\* deadline holds nobody, and neither a refused nor an unreadable client, a fault,
\* a crash or a hang-up does.
NoHostage ==
  \/ \A c \in Client : []<>(conn[c] \in {"out", "closed"})
  \/ <>[]HeldBySilence
  \/ <>[]HeldByReply
  \/ []<>TricklesOn

\* A connection the daemon has not begun to work for.
Awaits(c) ==
  \/ conn[c] = "queued"
  \/ conn[c] = "open" /\ ~(cur = c /\ pc \in {"read", "reply", "finish"})

\* The loop around the gate and the audit trail keeps what they promise
\* together: no connection is worked for twice, or past the policy, or outside
\* of its own pair of lines, and what is written stays written.
Mediated == INSTANCE Mediation WITH
  Caller <- Client,
  Words <- Label,
  Started <- [line |-> "serving", conn |-> Nobody, by |-> NoLabel],
  audited <- is_audited,
  been <- {c \in Client : conn[c] # "out"},
  welcome <- {c \in Client : Awaits(c) /\ MayBeAdmitted(c)},
  open <- IF pc \in {"read", "reply", "finish"}
            THEN {[conn |-> cur, by |-> label]}
            ELSE {},
  record <- journal,
  served <- answered

ImplementsMediation == Mediated!MediationSpec

\* A connect-and-drop probe is answered with silence, and plants no line.
ProbeMeetsSilence ==
  /\ Probe \cap spoken_to = {}
  /\ \A i \in Lines : journal[i].conn \notin Probe

\* PeerGate: "a gate configured with neither refuses everyone rather than
\* silently degrading to 'allow all'".
EmptyGateRefuses ==
  config.authorizer \in [kind : {"PeerGate"}, allowed_uids : {{}}, allowed_gids : {{}},
                        reject_unreadable_caller : BOOLEAN]
    => answered = {}

=============================================================================
