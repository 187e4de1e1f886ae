-------------------------- MODULE GatekeeperProofs --------------------------
(***************************************************************************)
(* For any clients, credentials, daemons and queue, and any number of      *)
(* faults and crashes: the journal is bracketed, a line names whoever      *)
(* connected, nobody is served whom the authorizer refuses, and a request  *)
(* is read under its own deadline.                                         *)
(***************************************************************************)
EXTENDS Gatekeeper, SequenceTheorems, TLAPS

(***************************************************************************)
(* Types, of the journal too.                                              *)
(***************************************************************************)
Word == {"serving", "refused", "begin", "ok", "failed"}

Line == [line : Word, conn : Client \cup {Nobody}, by : Label]

\* Where the loop has a connection in hand.
Turn == {"of_socket", "set_read_timeout", "authorize", "begin", "read", "reply", "finish"}

TypeInv ==
  /\ TypeOK
  /\ journal \in Seq(Line)
  /\ pc \in Turn => cur \in Client

LEMMA BoundsAreNumbers == Backlog \in Nat /\ MaxFaults \in Nat /\ MaxCrashes \in Nat
<1>1. {Backlog, MaxFaults, MaxCrashes} \subseteq Nat
  BY GatekeeperAssumption DEF GatekeeperAssumption
<1>2. QED
  BY <1>1

LEMMA TypeInitially == Init => TypeInv
<1> SUFFICES ASSUME Init PROVE TypeInv
  OBVIOUS
<1>1. queue \in Seq(Client) /\ Len(queue) <= Backlog /\ journal \in Seq(Line)
  BY BoundsAreNumbers DEF Init
<1>2. /\ config \in Configs
      /\ cred \in [Client -> Cred] /\ peer \in [Client -> Cred]
      /\ conn \in [Client -> {"out", "queued", "open", "closed"}]
      /\ hungup \in [Client -> BOOLEAN] /\ sent \in [Client -> {"nothing", "some", "all"}]
      /\ reads \in [Client -> BOOLEAN]
  BY DEF Init
<1>3. label \in Label
  BY DEF Init, NoLabel, Label
<1>4. faults \in 0 .. MaxFaults /\ crashes \in 0 .. MaxCrashes
  BY BoundsAreNumbers DEF Init
<1>5. QED
  BY <1>1, <1>2, <1>3, <1>4 DEF Init, TypeInv, TypeOK, Turn

\* No label holds a line break, so whatever is said is one line.
LEMMA OneLineSaid ==
  ASSUME TypeInv, NEW word \in Word, NEW by \in Label, Say(word, by)
  PROVE  /\ [line |-> word, conn |-> cur, by |-> by] \in Line
         /\ journal' = Append(journal, [line |-> word, conn |-> cur, by |-> by])
<1> DEFINE said == [line |-> word, conn |-> cur, by |-> by]
<1>1. said \in Line
  BY DEF TypeInv, TypeOK, Line
<1>2. by.name # "two_lines"
  BY DEF Label
<1>3. journal' = journal \o <<said>>
  BY <1>2 DEF Say
<1>4. journal \in Seq(Line)
  BY DEF TypeInv
<1>5. QED
  BY <1>1, <1>3, <1>4, AppendIsConcat

LEMMA LabelsDisplayed ==
  ASSUME TypeInv, NEW who \in Cred \cup {Unreadable}
  PROVE  Display(who) \in Label
BY DEF TypeInv, TypeOK, Display, Label

LEMMA NoLabelIsLabel == NoLabel \in Label
BY DEF NoLabel, Label

LEMMA TypeThroughClient ==
  ASSUME TypeInv, NEW c \in Client, ClientStep(c)
  PROVE  TypeInv'
<1> USE DEF TypeInv, TypeOK, Turn, request, told, bounds
<1>1. UNCHANGED <<config, pc, request, told, named, bounds>>
  BY DEF ClientStep
<1>2. CASE Connect(c)
  <2>1. Append(queue, c) \in Seq(Client) /\ Len(Append(queue, c)) = Len(queue) + 1
    BY AppendProperties
  <2>2. Len(queue) \in Nat /\ Backlog \in Nat
    BY BoundsAreNumbers
  <2>3. queue' \in Seq(Client) /\ Len(queue') <= Backlog
    BY <1>2, <2>1, <2>2 DEF Connect
  <2>4. /\ conn' \in [Client -> {"out", "queued", "open", "closed"}]
        /\ cred' \in [Client -> Cred] /\ peer' \in [Client -> Cred]
        /\ hungup' \in [Client -> BOOLEAN] /\ sent' \in [Client -> {"nothing", "some", "all"}]
        /\ reads' \in [Client -> BOOLEAN]
    BY <1>2 DEF Connect
  <2>5. QED
    BY <1>1, <2>3, <2>4
<1>3. CASE ChangeCred(c)
  BY <1>1, <1>3 DEF ChangeCred
<1>4. CASE WriteRequest(c)
  BY <1>1, <1>4 DEF WriteRequest
<1>5. CASE ReadReply(c)
  BY <1>1, <1>5 DEF ReadReply
<1>6. CASE HangUp(c)
  BY <1>1, <1>6 DEF HangUp
<1>7. QED
  BY <1>2, <1>3, <1>4, <1>5, <1>6 DEF ClientStep

\* Forgetting a turn, or clients, leaves what is left of the right type.
LEMMA ForgettingKeepsTypes ==
  ASSUME TypeInv
  PROVE  /\ ForgetRequest => /\ cur' \in Client \cup {Nobody}
                             /\ caller' \in Cred \cup {Unreadable}
                             /\ deadline' \in {"none", "heartbeat", "request"}
                             /\ label' \in Label
                             /\ failed' \in BOOLEAN
         /\ \A gone : ForgetClients(gone) =>
              /\ cred' \in [Client -> Cred] /\ peer' \in [Client -> Cred]
              /\ conn' \in [Client -> {"out", "queued", "open", "closed"}]
              /\ hungup' \in [Client -> BOOLEAN]
              /\ sent' \in [Client -> {"nothing", "some", "all"}]
              /\ reads' \in [Client -> BOOLEAN]
<1>1. ForgetRequest => /\ cur' \in Client \cup {Nobody}
                       /\ caller' \in Cred \cup {Unreadable}
                       /\ deadline' \in {"none", "heartbeat", "request"}
                       /\ label' \in Label
                       /\ failed' \in BOOLEAN
  BY NoLabelIsLabel DEF ForgetRequest
<1>2. ASSUME NEW gone, ForgetClients(gone)
      PROVE  /\ cred' \in [Client -> Cred] /\ peer' \in [Client -> Cred]
             /\ conn' \in [Client -> {"out", "queued", "open", "closed"}]
             /\ hungup' \in [Client -> BOOLEAN]
             /\ sent' \in [Client -> {"nothing", "some", "all"}]
             /\ reads' \in [Client -> BOOLEAN]
  BY <1>2 DEF ForgetClients, TypeInv, TypeOK
<1>3. QED
  BY <1>1, <1>2

LEMMA TypeThroughDaemon ==
  ASSUME TypeInv, DaemonStep
  PROVE  TypeInv'
<1> DEFINE Journaled == journal' \in Seq(Line)
<1> USE DEF TypeInv, TypeOK, Turn, clients, request, told, bounds
<1>1. UNCHANGED <<config, named>>
  BY DEF DaemonStep
<1>2. ASSUME NEW word \in Word, NEW by \in Label, Say(word, by) PROVE Journaled
  <2>1. /\ [line |-> word, conn |-> cur, by |-> by] \in Line
        /\ journal' = Append(journal, [line |-> word, conn |-> cur, by |-> by])
    BY <1>2, OneLineSaid
  <2>2. QED
    BY <2>1, AppendProperties
<1>3. ASSUME Close
      PROVE  /\ pc' = "accept"
             /\ cur' \in Client \cup {Nobody} /\ caller' \in Cred \cup {Unreadable}
             /\ deadline' \in {"none", "heartbeat", "request"}
             /\ label' \in Label /\ failed' \in BOOLEAN
             /\ cred' \in [Client -> Cred] /\ peer' \in [Client -> Cred]
             /\ conn' \in [Client -> {"out", "queued", "open", "closed"}]
             /\ hungup' \in [Client -> BOOLEAN] /\ sent' \in [Client -> {"nothing", "some", "all"}]
             /\ reads' \in [Client -> BOOLEAN]
  BY <1>3, ForgettingKeepsTypes DEF Close
<1>4. CASE Start
  <2>1. Journaled
    BY <1>2, <1>4, NoLabelIsLabel DEF Start, Word
  <2>2. QED
    BY <1>1, <1>4, <2>1 DEF Start
<1>5. CASE Accept
  <2>1. /\ Head(queue) \in Client
        /\ Tail(queue) \in Seq(Client) /\ Len(Tail(queue)) = Len(queue) - 1
    BY <1>5, HeadTailProperties DEF Accept
  <2>2. Len(queue) \in Nat /\ Backlog \in Nat
    BY BoundsAreNumbers
  <2>3. queue' \in Seq(Client) /\ Len(queue') <= Backlog /\ cur' \in Client
    BY <1>5, <2>1, <2>2 DEF Accept
  <2>4. conn' \in [Client -> {"out", "queued", "open", "closed"}]
    BY <1>5 DEF Accept
  <2>5. QED
    BY <1>1, <1>5, <2>3, <2>4 DEF Accept
<1>6. CASE OfSocket
  BY <1>1, <1>6, BoundsAreNumbers DEF OfSocket, Fault
<1>7. CASE SetReadTimeout
  <2>1. faults' \in 0 .. MaxFaults
    BY <1>7, BoundsAreNumbers DEF SetReadTimeout, Fault
  <2>2. CASE Close
    BY <1>1, <1>3, <1>7, <2>1, <2>2 DEF SetReadTimeout
  <2>3. CASE ~Close
    BY <1>1, <1>7, <2>1, <2>3 DEF SetReadTimeout
  <2>4. QED
    BY <2>2, <2>3
<1>8. CASE Authorize
  <2>1. CASE pc' = "begin" /\ UNCHANGED <<clients, request, journal, spoken_to>>
    BY <1>1, <1>8, <2>1 DEF Authorize
  <2>2. CASE Say("refused", Display(caller)) /\ spoken_to' = spoken_to \cup {cur} /\ Close
    <3>1. Journaled
      BY <1>2, <2>2, LabelsDisplayed DEF Word
    <3>2. spoken_to' \subseteq Client
      BY <1>8, <2>2 DEF Authorize
    <3>3. QED
      BY <1>1, <1>3, <1>8, <2>2, <3>1, <3>2 DEF Authorize
  <2>3. QED
    BY <1>8, <2>1, <2>2 DEF Authorize
<1>9. CASE Begin
  <2>1. Describe \in Label
    BY LabelsDisplayed DEF Describe
  <2>2. Journaled /\ label' \in Label
    BY <1>2, <1>9, <2>1 DEF Begin, Word
  <2>3. QED
    BY <1>1, <1>9, <2>2 DEF Begin
<1>10. CASE Read
  BY <1>1, <1>10 DEF Read
<1>11. CASE Reply
  BY <1>1, <1>11 DEF Reply
<1>12. CASE Finish
  <2>1. Journaled
    BY <1>2, <1>12 DEF Finish, Word
  <2>2. QED
    BY <1>1, <1>3, <1>12, <2>1 DEF Finish
<1>13. QED
  BY <1>4, <1>5, <1>6, <1>7, <1>8, <1>9, <1>10, <1>11, <1>12 DEF DaemonStep

LEMMA TypeStep == TypeInv /\ [Next]_vars => TypeInv'
<1> SUFFICES ASSUME TypeInv, [Next]_vars PROVE TypeInv'
  OBVIOUS
<1>1. CASE UNCHANGED vars
  BY <1>1 DEF vars, clients, request, told, bounds, TypeInv, TypeOK
<1>2. CASE NameResolves
  BY <1>2 DEF NameResolves, sanitize, AccountName, clients, request, told, bounds,
              TypeInv, TypeOK
<1>3. CASE Crash
  <2>1. crashes' \in 0 .. MaxCrashes
    BY <1>3, BoundsAreNumbers DEF Crash, TypeInv, TypeOK
  <2>2. queue' \in Seq(Client) /\ Len(queue') <= Backlog
    BY <1>3, BoundsAreNumbers DEF Crash
  <2>3. /\ UNCHANGED <<config, journal, answered, spoken_to, faults>>
        /\ pc' = "down" /\ named' = "none"
    BY <1>3 DEF Crash, told
  <2>4. QED
    BY <1>3, <2>1, <2>2, <2>3, ForgettingKeepsTypes DEF Crash, TypeInv, TypeOK, Turn
<1>4. QED
  BY <1>1, <1>2, <1>3, TypeThroughClient, TypeThroughDaemon DEF Next

\* Every variable keeps its type, and so does every line of the journal: no
\* label that is written holds a line break.
THEOREM TypeCorrect == Spec => []TypeOK
<1>1. TypeInv => TypeOK
  BY DEF TypeInv
<1>2. QED
  BY TypeInitially, TypeStep, <1>1, PTL DEF Spec

-----------------------------------------------------------------------------
(***************************************************************************)
(* What a step does to the clients and to the journal.                     *)
(***************************************************************************)

\* What the kernel took down at connect(2) stays for good.
LEMMA PeersStay ==
  ASSUME TypeInv, [Next]_vars, NEW c \in Client, conn[c] # "out"
  PROVE  conn'[c] # "out" /\ peer'[c] = peer[c]
<1> USE DEF TypeInv, TypeOK, clients
<1>1. ASSUME NEW gone, ForgetClients(gone)
      PROVE  conn'[c] # "out" /\ peer'[c] = peer[c]
  BY <1>1 DEF ForgetClients
<1>2. CASE UNCHANGED clients
  BY <1>2
<1>3. ASSUME NEW d \in Client, ClientStep(d)
      PROVE  conn'[c] # "out" /\ peer'[c] = peer[c]
  BY <1>3 DEF ClientStep, Connect, ChangeCred, WriteRequest, ReadReply, HangUp
<1>4. CASE DaemonStep
  <2>1. CASE Close
    BY <1>1, <2>1 DEF Close
  <2>2. CASE Accept
    BY <2>2 DEF Accept
  <2>3. CASE ~Close /\ ~Accept
    BY <1>2, <1>4, <2>3 DEF DaemonStep, Start, OfSocket, SetReadTimeout, Authorize,
                            Begin, Read, Reply, Finish
  <2>4. QED
    BY <2>1, <2>2, <2>3
<1>5. CASE NameResolves
  BY <1>2, <1>5 DEF NameResolves
<1>6. CASE Crash
  BY <1>1, <1>6 DEF Crash
<1>7. CASE UNCHANGED vars
  BY <1>2, <1>7 DEF vars
<1>8. QED
  BY <1>3, <1>4, <1>5, <1>6, <1>7 DEF Next

Serving == {"read", "reply", "finish"}

\* Nothing is said, and an audited operation stays in flight, or a crash ends it.
Silence ==
  /\ UNCHANGED journal
  /\ pc \in Serving /\ is_audited => pc' \in Serving \cup {"down"}
  /\ pc = "down" => pc' = "down"
  /\ pc' \in Serving /\ is_audited => pc \in Serving /\ UNCHANGED <<cur, label>>

Says(word, by) ==
  /\ [line |-> word, conn |-> cur, by |-> by] \in Line
  /\ journal' = Append(journal, [line |-> word, conn |-> cur, by |-> by])

\* The four kinds of steps that say something, and what they say.
LEMMA WhatIsSaid ==
  ASSUME TypeInv, [Next]_vars
  PROVE  \/ Silence
         \/ Start /\ Says("serving", NoLabel)
         \/ Authorize /\ Close /\ Says("refused", Display(caller))
         \/ Begin /\ is_audited /\ Says("begin", Describe)
         \/ Finish /\ is_audited /\ \E word \in {"ok", "failed"} : Says(word, label)
<1> DEFINE Goal == \/ Silence
                   \/ Start /\ Says("serving", NoLabel)
                   \/ Authorize /\ Close /\ Says("refused", Display(caller))
                   \/ Begin /\ is_audited /\ Says("begin", Describe)
                   \/ Finish /\ is_audited /\ \E word \in {"ok", "failed"} : Says(word, label)
<1> USE DEF clients, request, told
<1>1. ASSUME NEW word \in Word, NEW by \in Label, Say(word, by) PROVE Says(word, by)
  BY <1>1, OneLineSaid DEF Says
<1>2. CASE UNCHANGED <<pc, cur, label, journal>>
  BY <1>2 DEF Silence, Serving
<1>3. ASSUME NEW c \in Client, ClientStep(c) PROVE Goal
  BY <1>2, <1>3 DEF ClientStep
<1>4. CASE NameResolves
  BY <1>2, <1>4 DEF NameResolves
<1>5. CASE Crash
  BY <1>5 DEF Crash, Silence, Serving
<1>6. CASE UNCHANGED vars
  BY <1>2, <1>6 DEF vars
<1>7. CASE Start
  BY <1>1, <1>7, NoLabelIsLabel DEF Start, Word
<1>8. CASE Accept
  BY <1>8 DEF Accept, Silence, Serving
<1>9. CASE OfSocket
  BY <1>9 DEF OfSocket, Silence, Serving
<1>10. CASE SetReadTimeout
  BY <1>10 DEF SetReadTimeout, Close, Silence, Serving
<1>11. CASE Authorize
  <2>1. CASE pc' = "begin" /\ UNCHANGED journal
    BY <1>11, <2>1 DEF Authorize, Silence, Serving
  <2>2. CASE Say("refused", Display(caller)) /\ Close
    <3>1. Display(caller) \in Label
      BY LabelsDisplayed DEF TypeInv, TypeOK
    <3>2. QED
      BY <1>1, <1>11, <2>2, <3>1 DEF Word
  <2>3. QED
    BY <1>11, <2>1, <2>2 DEF Authorize
<1>12. CASE Begin
  <2>1. CASE is_audited
    <3>1. Describe \in Label
      BY LabelsDisplayed DEF Describe, TypeInv, TypeOK
    <3>2. QED
      BY <1>1, <1>12, <2>1, <3>1 DEF Begin, Word
  <2>2. CASE ~is_audited
    BY <1>12, <2>2 DEF Begin, Silence, Serving
  <2>3. QED
    BY <2>1, <2>2
<1>13. CASE Read
  BY <1>13 DEF Read, Silence, Serving
<1>14. CASE Reply
  BY <1>14 DEF Reply, Silence, Serving
<1>15. CASE Finish
  <2>1. CASE is_audited
    <3>1. label \in Label /\ {"ok", "failed"} \subseteq Word
      BY DEF TypeInv, TypeOK, Word
    <3>2. \E word \in {"ok", "failed"} : Say(word, label)
      BY <1>15, <2>1 DEF Finish
    <3>3. QED
      BY <1>1, <1>15, <2>1, <3>1, <3>2
  <2>2. CASE ~is_audited
    BY <1>15, <2>2 DEF Finish, Close, Silence, Serving
  <2>3. QED
    BY <2>1, <2>2
<1>16. QED
  BY <1>3, <1>4, <1>5, <1>6, <1>7, <1>8, <1>9, <1>10, <1>11, <1>12, <1>13, <1>14, <1>15
     DEF Next, DaemonStep

LEMMA OneMoreLine ==
  ASSUME TypeInv, NEW word, NEW by, Says(word, by)
  PROVE  /\ Len(journal) \in Nat
         /\ Lines = 1 .. Len(journal)
         /\ Len(journal') = Len(journal) + 1
         /\ Lines' = 1 .. (Len(journal) + 1)
         /\ \A i \in Lines : journal'[i] = journal[i]
         /\ journal'[Len(journal) + 1] = [line |-> word, conn |-> cur, by |-> by]
<1> DEFINE said == [line |-> word, conn |-> cur, by |-> by]
<1>1. journal \in Seq(Line) /\ said \in Line /\ journal' = Append(journal, said)
  BY DEF TypeInv, Says
<1>2. journal' \in Seq(Line)
  BY <1>1, AppendProperties
<1>3. Lines = 1 .. Len(journal) /\ Len(journal) \in Nat
  BY <1>1 DEF Lines
<1>4. Lines' = 1 .. Len(journal')
  BY <1>2 DEF Lines
<1>5. /\ Len(journal') = Len(journal) + 1
      /\ \A i \in 1 .. Len(journal) : journal'[i] = journal[i]
      /\ journal'[Len(journal) + 1] = said
  BY <1>1, AppendProperties
<1>6. QED
  BY <1>3, <1>4, <1>5

-----------------------------------------------------------------------------
(***************************************************************************)
(* Attribution: the loop holds the connection's own credentials, or none,  *)
(* from the moment it reads them to the last line it writes about them.    *)
(***************************************************************************)
Known(c) == c \in Client /\ conn[c] # "out"

Owns(who, c) == who \in {peer[c], Unreadable}

HeldIsTheConnectors ==
  /\ pc \in Turn => Known(cur) /\ Owns(caller, cur) /\ Owns(label.who, cur)
  /\ pc \notin Turn => caller = Unreadable /\ label = NoLabel

LinesAreKnown ==
  \A i \in Lines :
    journal[i].line # "serving" =>
      Known(journal[i].conn) /\ Owns(journal[i].by.who, journal[i].conn)

AttributionInv == TypeInv /\ HeldIsTheConnectors /\ LinesAreKnown

LEMMA AttributedInitially == Init => AttributionInv
<1> SUFFICES ASSUME Init PROVE HeldIsTheConnectors /\ LinesAreKnown
  BY TypeInitially DEF AttributionInv
<1>1. HeldIsTheConnectors
  BY DEF Init, HeldIsTheConnectors, Turn
<1>2. Lines = {}
  BY DEF Init, Lines
<1>3. QED
  BY <1>1, <1>2 DEF LinesAreKnown

LEMMA KnownStays ==
  ASSUME TypeInv, [Next]_vars, NEW c, Known(c)
  PROVE  Known(c)' /\ peer'[c] = peer[c]
BY PeersStay DEF Known

LEMMA HeldStep ==
  ASSUME AttributionInv, [Next]_vars
  PROVE  HeldIsTheConnectors'
<1> USE DEF AttributionInv, HeldIsTheConnectors, Turn, Owns, clients, request
<1>1. ASSUME UNCHANGED <<pc, cur, caller, label>> PROVE HeldIsTheConnectors'
  BY <1>1, KnownStays
<1>2. ASSUME pc' \in {"accept", "down"}, ForgetRequest PROVE HeldIsTheConnectors'
  BY <1>2 DEF ForgetRequest
<1>3. ASSUME NEW c \in Client, ClientStep(c) PROVE HeldIsTheConnectors'
  BY <1>1, <1>3 DEF ClientStep
<1>4. CASE NameResolves
  BY <1>1, <1>4 DEF NameResolves
<1>5. CASE Crash
  BY <1>2, <1>5 DEF Crash
<1>6. CASE UNCHANGED vars
  BY <1>1, <1>6 DEF vars
<1>7. CASE Start
  BY <1>7 DEF Start
<1>8. CASE Accept
  <2>1. cur' \in Client
    BY <1>8, HeadTailProperties DEF Accept, TypeInv, TypeOK
  <2>2. conn'[cur'] = "open"
    BY <1>8, <2>1 DEF Accept, TypeInv, TypeOK
  <2>3. QED
    BY <1>8, <2>1, <2>2 DEF Accept, Known, NoLabel
<1>9. CASE OfSocket
  BY <1>9, KnownStays DEF OfSocket
<1>10. CASE SetReadTimeout
  BY <1>2, <1>10, KnownStays DEF SetReadTimeout, Close
<1>11. CASE Authorize
  BY <1>2, <1>11, KnownStays DEF Authorize, Close
<1>12. CASE Begin
  BY <1>12, KnownStays DEF Begin, Describe, Display
<1>13. CASE Read
  BY <1>13, KnownStays DEF Read
<1>14. CASE Reply
  BY <1>14, KnownStays DEF Reply
<1>15. CASE Finish
  BY <1>2, <1>15 DEF Finish, Close
<1>16. QED
  BY <1>3, <1>4, <1>5, <1>6, <1>7, <1>8, <1>9, <1>10, <1>11, <1>12, <1>13, <1>14, <1>15
     DEF Next, DaemonStep

LEMMA LinesStep ==
  ASSUME AttributionInv, [Next]_vars
  PROVE  LinesAreKnown'
<1> USE DEF AttributionInv
<1> DEFINE KnownAfter(line) ==
      line.line # "serving" =>
        /\ line.conn \in Client /\ conn'[line.conn] # "out"
        /\ line.by.who \in {peer'[line.conn], Unreadable}
<1>1. ASSUME NEW i \in Lines PROVE KnownAfter(journal[i])
  BY KnownStays DEF LinesAreKnown, Known, Owns
<1>2. ASSUME \A i \in Lines' : KnownAfter(journal'[i]) PROVE LinesAreKnown'
  BY <1>2 DEF LinesAreKnown, Known, Owns
<1>3. CASE Silence
  <2>1. Lines' = Lines /\ journal' = journal
    BY <1>3 DEF Silence, Lines
  <2>2. QED
    BY <1>1, <1>2, <2>1
<1>4. ASSUME NEW word, NEW by, Says(word, by),
             word # "serving" => Known(cur) /\ Owns(by.who, cur)
      PROVE  LinesAreKnown'
  <2>1. KnownAfter([line |-> word, conn |-> cur, by |-> by])
    BY <1>4, KnownStays DEF Known, Owns
  <2>2. ASSUME NEW i \in Lines' PROVE KnownAfter(journal'[i])
    <3>1. CASE i \in Lines
      BY <1>1, <1>4, <3>1, OneMoreLine
    <3>2. CASE i \notin Lines
      <4> HIDE DEF KnownAfter
      <4>1. /\ Len(journal) \in Nat /\ Lines = 1 .. Len(journal)
            /\ Lines' = 1 .. (Len(journal) + 1)
            /\ journal'[Len(journal) + 1] = [line |-> word, conn |-> cur, by |-> by]
        BY <1>4, OneMoreLine
      <4>2. journal'[i] = [line |-> word, conn |-> cur, by |-> by]
        BY <3>2, <4>1
      <4>3. QED
        BY <2>1, <4>2
    <3>3. QED
      BY <3>1, <3>2
  <2>3. QED
    BY <1>2, <2>2
<1>5. CASE Start /\ Says("serving", NoLabel)
  BY <1>4, <1>5
<1>6. ASSUME pc \in Turn
      PROVE  /\ Known(cur) /\ Owns(label.who, cur)
             /\ Owns(Display(caller).who, cur) /\ Owns(Describe.who, cur)
  BY <1>6 DEF HeldIsTheConnectors, Display, Describe
<1>7. CASE Authorize /\ Says("refused", Display(caller))
  BY <1>4, <1>6, <1>7 DEF Authorize, Turn
<1>8. CASE Begin /\ Says("begin", Describe)
  BY <1>4, <1>6, <1>8 DEF Begin, Turn
<1>9. CASE Finish /\ \E word \in {"ok", "failed"} : Says(word, label)
  BY <1>4, <1>6, <1>9 DEF Finish, Turn
<1>10. QED
  BY <1>3, <1>5, <1>7, <1>8, <1>9, WhatIsSaid

LEMMA AttributedStep == AttributionInv /\ [Next]_vars => AttributionInv'
BY TypeStep, HeldStep, LinesStep DEF AttributionInv

\* Whatever becomes of a client after it connects, every line about its
\* connection names the credentials it connected with, or none.
THEOREM LinesNameTheConnector == Spec => []AttributedToConnector
<1>1. AttributionInv => AttributedToConnector
  BY DEF AttributionInv, LinesAreKnown, AttributedToConnector, Owns
<1>2. QED
  BY AttributedInitially, AttributedStep, <1>1, PTL DEF Spec

-----------------------------------------------------------------------------
(***************************************************************************)
(* The bracket: while an audited operation is in flight, its announcement  *)
(* is the last line, in the words it keeps for its completion.             *)
(***************************************************************************)
AnnouncedLast ==
  pc \in Serving /\ is_audited =>
    /\ journal # <<>>
    /\ journal[Len(journal)] = [line |-> "begin", conn |-> cur, by |-> label]

OnlyAuditedBegin == ~is_audited => \A i \in Lines : journal[i].line # "begin"

BracketInv == TypeInv /\ JournalIsBracketed /\ AnnouncedLast /\ OnlyAuditedBegin

LEMMA BracketedInitially == Init => BracketInv
<1> SUFFICES ASSUME Init PROVE JournalIsBracketed /\ AnnouncedLast /\ OnlyAuditedBegin
  BY TypeInitially DEF BracketInv
<1>1. Lines = {} /\ pc = "down"
  BY DEF Init, Lines
<1>2. QED
  BY <1>1 DEF JournalIsBracketed, AnnouncedLast, OnlyAuditedBegin, Serving

\* How a daemon is put together does not change.
LEMMA ConfigStays ==
  ASSUME [Next]_vars
  PROVE  config' = config
BY DEF Next, vars, ClientStep, NameResolves, DaemonStep, Crash

LEMMA LastLine ==
  ASSUME TypeInv, journal # <<>>
  PROVE  Len(journal) \in Lines /\ Len(journal) >= 1
BY DEF TypeInv, Lines

LEMMA BracketThroughSilence ==
  ASSUME BracketInv, [Next]_vars, Silence
  PROVE  JournalIsBracketed' /\ AnnouncedLast' /\ OnlyAuditedBegin'
<1>1. journal' = journal /\ Lines' = Lines /\ is_audited' = is_audited
  BY ConfigStays DEF Silence, Lines, is_audited
<1>2. AnnouncedLast' /\ OnlyAuditedBegin'
  BY <1>1 DEF BracketInv, AnnouncedLast, OnlyAuditedBegin, Silence
<1>3. ASSUME NEW i \in Lines, journal[i].line = "begin", i = Len(journal)
      PROVE  pc' \in Serving \cup {"down"}
  <2>1. pc \in Serving \cup {"down"} /\ is_audited
    BY <1>3 DEF BracketInv, JournalIsBracketed, OnlyAuditedBegin, Serving
  <2>2. QED
    BY <2>1 DEF Silence
<1>4. JournalIsBracketed'
  BY <1>1, <1>3 DEF BracketInv, JournalIsBracketed, Serving
<1>5. QED
  BY <1>2, <1>4

\* A line that is said keeps the bracket if it may follow the line before it,
\* and if the operation it announces is then in flight.
LEMMA BracketThroughLine ==
  ASSUME BracketInv, [Next]_vars, NEW word, NEW by, Says(word, by),
         word \in {"ok", "failed"} =>
           /\ journal # <<>>
           /\ journal[Len(journal)] = [line |-> "begin", conn |-> cur, by |-> by],
         word \notin {"ok", "failed", "serving"} =>
           (journal # <<>> => journal[Len(journal)].line # "begin"),
         word = "begin" => is_audited /\ pc' = "read" /\ cur' = cur /\ label' = by,
         word # "begin" => pc' \notin Serving
  PROVE  JournalIsBracketed' /\ AnnouncedLast' /\ OnlyAuditedBegin'
<1> DEFINE last == Len(journal)
           said == [line |-> word, conn |-> cur, by |-> by]
<1>1. /\ last \in Nat /\ Lines = 1 .. last
      /\ Len(journal') = last + 1 /\ Lines' = 1 .. (last + 1)
      /\ \A i \in Lines : journal'[i] = journal[i]
      /\ journal'[last + 1] = said
  BY OneMoreLine DEF BracketInv
<1>2. is_audited' = is_audited
  BY ConfigStays DEF is_audited
<1>3. journal # <<>> <=> last >= 1
  BY <1>1, LastLine, EmptySeq DEF BracketInv, TypeInv
<1>4. AnnouncedLast'
  <2>1. CASE word = "begin"
    <3>1. journal' # <<>>
      BY <1>1, EmptySeq
    <3>2. QED
      BY <1>1, <2>1, <3>1 DEF AnnouncedLast
  <2>2. CASE word # "begin"
    BY <2>2 DEF AnnouncedLast
  <2>3. QED
    BY <2>1, <2>2
<1>5. OnlyAuditedBegin'
  BY <1>1, <1>2 DEF OnlyAuditedBegin, BracketInv
<1> DEFINE Completes(i) ==
             journal'[i].line \in {"ok", "failed"} =>
               i > 1 /\ journal'[i - 1] = [journal'[i] EXCEPT !.line = "begin"]
           Announces(i) ==
             journal'[i].line = "begin" =>
               IF i = last + 1
                 THEN pc' \in {"read", "reply", "finish", "down"}
                 ELSE journal'[i + 1].line \in {"ok", "failed", "serving"}
<1>6. ASSUME NEW i \in 1 .. (last + 1) PROVE Completes(i)
  <2>1. CASE i \in 1 .. last
    <3>1. journal[i].line \in {"ok", "failed"} =>
            i > 1 /\ journal[i - 1] = [journal[i] EXCEPT !.line = "begin"]
      BY <1>1, <2>1 DEF BracketInv, JournalIsBracketed
    <3>2. i > 1 => i - 1 \in 1 .. last
      BY <1>1, <2>1
    <3>3. QED
      BY <1>1, <2>1, <3>1, <3>2
  <2>2. CASE i = last + 1
    <3>1. SUFFICES ASSUME word \in {"ok", "failed"}
                   PROVE  last >= 1 /\ journal'[last] = [said EXCEPT !.line = "begin"]
      BY <1>1, <2>2, <3>1
    <3>2. last >= 1
      BY <1>3, <3>1
    <3>3. journal'[last] = [line |-> "begin", conn |-> cur, by |-> by]
      BY <1>1, <3>1, <3>2
    <3>4. QED
      BY <3>2, <3>3
  <2>3. QED
    BY <1>1, <2>1, <2>2
<1>7. ASSUME NEW i \in 1 .. (last + 1) PROVE Announces(i)
  <2>1. CASE i \in 1 .. last /\ i # last
    <3>1. journal[i].line = "begin" => journal[i + 1].line \in {"ok", "failed", "serving"}
      BY <1>1, <2>1 DEF BracketInv, JournalIsBracketed
    <3>2. i + 1 \in 1 .. last /\ i # last + 1
      BY <1>1, <2>1
    <3>3. QED
      BY <1>1, <2>1, <3>1, <3>2
  <2>2. CASE i = last /\ last >= 1
    <3>1. journal'[i] = journal[last] /\ journal'[i + 1] = said /\ i # last + 1
      BY <1>1, <2>2
    <3>2. journal[last].line = "begin" => word \in {"ok", "failed", "serving"}
      BY <1>3, <2>2
    <3>3. QED
      BY <3>1, <3>2
  <2>3. CASE i = last + 1
    BY <1>1, <2>3
  <2>4. QED
    BY <1>1, <2>1, <2>2, <2>3
<1>8. JournalIsBracketed'
  BY <1>1, <1>6, <1>7 DEF JournalIsBracketed
<1>9. QED
  BY <1>4, <1>5, <1>8

LEMMA BracketedStep == BracketInv /\ [Next]_vars => BracketInv'
<1> SUFFICES ASSUME BracketInv, [Next]_vars
             PROVE  JournalIsBracketed' /\ AnnouncedLast' /\ OnlyAuditedBegin'
  BY TypeStep DEF BracketInv
<1> DEFINE Kept == JournalIsBracketed' /\ AnnouncedLast' /\ OnlyAuditedBegin'
<1>1. CASE Silence
  BY <1>1, BracketThroughSilence
<1>2. pc \in {"authorize", "begin"} =>
        (journal # <<>> => journal[Len(journal)].line # "begin")
  BY LastLine DEF BracketInv, JournalIsBracketed
<1>3. CASE Start /\ Says("serving", NoLabel)
  <2>1. pc' = "accept"
    BY <1>3 DEF Start
  <2>2. QED
    BY <1>3, <2>1, BracketThroughLine DEF Serving
<1>4. CASE Authorize /\ Close /\ Says("refused", Display(caller))
  <2>1. pc = "authorize" /\ pc' = "accept"
    BY <1>4 DEF Authorize, Close
  <2>2. QED
    BY <1>2, <1>4, <2>1, BracketThroughLine DEF Serving
<1>5. CASE Begin /\ is_audited /\ Says("begin", Describe)
  <2>1. pc = "begin" /\ pc' = "read" /\ cur' = cur /\ label' = Describe
    BY <1>5 DEF Begin
  <2>2. QED
    BY <1>2, <1>5, <2>1, BracketThroughLine
<1>6. CASE Finish /\ is_audited /\ \E word \in {"ok", "failed"} : Says(word, label)
  <2>1. pc = "finish" /\ pc' = "accept"
    BY <1>6 DEF Finish, Close
  <2>2. /\ journal # <<>>
        /\ journal[Len(journal)] = [line |-> "begin", conn |-> cur, by |-> label]
    BY <1>6, <2>1 DEF BracketInv, AnnouncedLast, Serving
  <2>3. PICK word \in {"ok", "failed"} : Says(word, label)
    BY <1>6
  <2>4. QED
    BY <2>1, <2>2, <2>3, BracketThroughLine DEF Serving
<1>7. QED
  BY <1>1, <1>3, <1>4, <1>5, <1>6, WhatIsSaid DEF BracketInv

\* Whatever fails, hangs up or crashes, every completion line follows the
\* announcement of its own operation, in the same words.
THEOREM JournalBracketed == Spec => []JournalIsBracketed
<1>1. BracketInv => JournalIsBracketed
  BY DEF BracketInv
<1>2. QED
  BY BracketedInitially, BracketedStep, <1>1, PTL DEF Spec

-----------------------------------------------------------------------------
(***************************************************************************)
(* Admission: whoever is past the authorizer is one it admits, and what is *)
(* worked on or was answered, if audited, has its announcement.            *)
(***************************************************************************)
Begun(c) == \E i \in Lines : journal[i].line = "begin" /\ journal[i].conn = c

InHandAdmitted == pc \in Serving \cup {"begin"} => MayBeAdmitted(cur)

AnsweredAdmitted ==
  \A c \in answered :
    /\ Known(c)
    /\ MayBeAdmitted(c)
    /\ is_audited => Begun(c)

BegunAdmitted ==
  \A i \in Lines : journal[i].line = "begin" => MayBeAdmitted(journal[i].conn)

AdmissionInv ==
  AttributionInv /\ BracketInv /\ InHandAdmitted /\ AnsweredAdmitted /\ BegunAdmitted

LEMMA AdmittedInitially == Init => AdmissionInv
<1> SUFFICES ASSUME Init PROVE InHandAdmitted /\ AnsweredAdmitted /\ BegunAdmitted
  BY AttributedInitially, BracketedInitially DEF AdmissionInv
<1>1. Lines = {} /\ pc = "down" /\ answered = {}
  BY DEF Init, Lines
<1>2. QED
  BY <1>1 DEF InHandAdmitted, AnsweredAdmitted, BegunAdmitted, Serving

\* Whom an authorizer lets through, by what the loop holds of the connection,
\* is one of those its words let in.
LEMMA AuthorizedMayBe ==
  ASSUME AttributionInv, pc = "authorize", authorize(config.authorizer, caller)
  PROVE  MayBeAdmitted(cur)
<1> DEFINE gate == config.authorizer
<1>1. gate.kind \in {"AllowSocketPeers", "DenyAll", "PeerGate"}
  BY GatekeeperAssumption DEF GatekeeperAssumption, AttributionInv, TypeInv, TypeOK
<1>2. CASE gate.kind = "AllowSocketPeers"
  BY <1>2 DEF MayBeAdmitted
<1>3. CASE gate.kind = "DenyAll"
  BY <1>3 DEF authorize
<1>4. CASE gate.kind = "PeerGate"
  <2>1. Admits(gate, caller)
    BY <1>4 DEF authorize
  <2>2. cur \in Client /\ caller \in {peer[cur], Unreadable} /\ peer[cur] \in Cred
    BY DEF AttributionInv, HeldIsTheConnectors, Turn, Owns, Known, TypeInv, TypeOK
  <2>3. peer[cur] \notin {Unreadable, InProcess}
    BY <2>2, GatekeeperAssumption DEF GatekeeperAssumption
  <2>4. CASE caller = peer[cur]
    BY <1>4, <2>1, <2>3, <2>4 DEF Admits, Listed, uid, gid, MayBeAdmitted
  <2>5. CASE caller = Unreadable
    <3>1. uid(caller) = {} /\ gid(caller) = {} /\ caller # InProcess
      BY <2>5, GatekeeperAssumption DEF GatekeeperAssumption, uid, gid
    <3>2. ~gate.reject_unreadable_caller
      BY <2>1, <3>1 DEF Admits, Listed
    <3>3. QED
      BY <1>4, <3>2 DEF MayBeAdmitted
  <2>6. QED
    BY <2>2, <2>3, <2>4, <2>5
<1>5. QED
  BY <1>1, <1>2, <1>3, <1>4

LEMMA InHandStep ==
  ASSUME AdmissionInv, [Next]_vars
  PROVE  InHandAdmitted'
<1> USE DEF AdmissionInv, AttributionInv
<1>1. ASSUME pc \in Serving \cup {"begin"}, cur' = cur PROVE InHandAdmitted'
  <2>1. Known(cur) /\ MayBeAdmitted(cur)
    BY <1>1 DEF InHandAdmitted, HeldIsTheConnectors, Serving, Turn
  <2>2. config' = config /\ peer'[cur] = peer[cur]
    BY <2>1, KnownStays, ConfigStays
  <2>3. MayBeAdmitted(cur)'
    BY <1>1, <2>1, <2>2 DEF MayBeAdmitted
  <2>4. QED
    BY <2>3 DEF InHandAdmitted
<1>2. ASSUME pc' \notin Serving \cup {"begin"} PROVE InHandAdmitted'
  BY <1>2 DEF InHandAdmitted
<1>3. ASSUME UNCHANGED <<pc, cur>> PROVE InHandAdmitted'
  BY <1>1, <1>2, <1>3
<1>4. CASE \E c \in Client : ClientStep(c)
  BY <1>3, <1>4 DEF ClientStep, request
<1>5. CASE NameResolves \/ Crash \/ UNCHANGED vars
  BY <1>2, <1>3, <1>5 DEF NameResolves, Crash, vars, request, Serving
<1>6. CASE Start \/ Accept \/ OfSocket \/ SetReadTimeout \/ Finish
  BY <1>2, <1>6 DEF Start, Accept, OfSocket, SetReadTimeout, Finish, Close, Serving
<1>7. CASE Authorize
  <2>1. CASE /\ authorize(config.authorizer, caller)
             /\ pc = "authorize" /\ UNCHANGED <<clients, request>>
    <3>1. MayBeAdmitted(cur)
      BY <2>1, AuthorizedMayBe
    <3>2. QED
      BY <2>1, <3>1, ConfigStays DEF InHandAdmitted, MayBeAdmitted, clients, request
  <2>2. CASE Close
    BY <1>2, <2>2 DEF Close, Serving
  <2>3. QED
    BY <1>7, <2>1, <2>2 DEF Authorize
<1>8. CASE Begin \/ Read \/ Reply
  BY <1>1, <1>8 DEF Begin, Read, Reply, Serving
<1>9. QED
  BY <1>4, <1>5, <1>6, <1>7, <1>8 DEF Next, DaemonStep

\* An announcement stays in the journal.
LEMMA BegunStays ==
  ASSUME TypeInv, [Next]_vars
  PROVE  \A i \in Lines : i \in Lines' /\ journal'[i] = journal[i]
<1>1. CASE Silence
  BY <1>1 DEF Silence, Lines
<1>2. ASSUME NEW word, NEW by, Says(word, by)
      PROVE  \A i \in Lines : i \in Lines' /\ journal'[i] = journal[i]
  <2>1. /\ Len(journal) \in Nat /\ Lines = 1 .. Len(journal)
        /\ Lines' = 1 .. (Len(journal) + 1)
        /\ \A i \in Lines : journal'[i] = journal[i]
    BY <1>2, OneMoreLine
  <2>2. QED
    BY <2>1
<1>3. QED
  BY <1>1, <1>2, WhatIsSaid

\* A request is answered only while its operation is in flight.
LEMMA AnswersInFlight ==
  ASSUME [Next]_vars
  PROVE  answered' = answered \/ (pc = "reply" /\ answered' = answered \cup {cur})
<1>1. CASE \E c \in Client : ClientStep(c)
  BY <1>1 DEF ClientStep, told
<1>2. CASE NameResolves \/ Crash \/ UNCHANGED vars
  BY <1>2 DEF NameResolves, Crash, vars, told
<1>3. CASE DaemonStep
  BY <1>3 DEF DaemonStep, Start, Accept, OfSocket, SetReadTimeout, Authorize, Begin,
              Read, Reply, Finish, told
<1>4. QED
  BY <1>1, <1>2, <1>3 DEF Next

LEMMA AnsweredStep ==
  ASSUME AdmissionInv, [Next]_vars
  PROVE  AnsweredAdmitted'
<1> USE DEF AdmissionInv, AttributionInv
<1> DEFINE Good(c) == Known(c) /\ MayBeAdmitted(c) /\ (is_audited => Begun(c))
<1>1. ASSUME NEW c \in answered' PROVE Good(c)
  <2>1. CASE c \in answered
    BY <2>1 DEF AnsweredAdmitted
  <2>2. CASE pc = "reply" /\ c = cur
    <3>1. Known(c) /\ MayBeAdmitted(c)
      BY <2>2 DEF InHandAdmitted, HeldIsTheConnectors, Serving, Turn
    <3>2. is_audited => Begun(c)
      BY <2>2, LastLine DEF BracketInv, AnnouncedLast, Serving, Begun
    <3>3. QED
      BY <3>1, <3>2
  <2>3. QED
    BY <1>1, <2>1, <2>2, AnswersInFlight
<1>2. ASSUME NEW c \in answered'
      PROVE  Known(c)' /\ MayBeAdmitted(c)' /\ (is_audited => Begun(c))'
  <2>1. Good(c)
    BY <1>1, <1>2
  <2>2. config' = config /\ peer'[c] = peer[c] /\ Known(c)'
    BY <2>1, KnownStays, ConfigStays
  <2>3. MayBeAdmitted(c)'
    BY <2>1, <2>2 DEF MayBeAdmitted
  <2>4. is_audited' = is_audited
    BY <2>2 DEF is_audited
  <2>5. Begun(c) => Begun(c)'
    BY BegunStays DEF Begun
  <2>6. QED
    BY <2>1, <2>2, <2>3, <2>4, <2>5
<1>3. QED
  BY <1>2 DEF AnsweredAdmitted

LEMMA BegunStep ==
  ASSUME AdmissionInv, [Next]_vars
  PROVE  BegunAdmitted'
<1> USE DEF AdmissionInv, AttributionInv
<1> DEFINE Admitted(line) ==
      line.line = "begin" =>
        line.conn \in Client /\ conn[line.conn] # "out" /\ MayBeAdmitted(line.conn)
<1>1. ASSUME NEW i \in Lines PROVE Admitted(journal[i])
  BY DEF BegunAdmitted, LinesAreKnown, Known
<1>2. ASSUME \A i \in Lines' : Admitted(journal'[i]) PROVE BegunAdmitted'
  <2> SUFFICES ASSUME NEW i \in Lines', journal'[i].line = "begin"
               PROVE  MayBeAdmitted(journal[i].conn)'
    BY DEF BegunAdmitted
  <2>1. Known(journal'[i].conn) /\ MayBeAdmitted(journal'[i].conn)
    BY <1>2 DEF Known
  <2>2. config' = config /\ peer'[journal'[i].conn] = peer[journal'[i].conn]
    BY <2>1, PeersStay, ConfigStays DEF Known
  <2>3. QED
    BY <2>1, <2>2 DEF MayBeAdmitted
<1>3. CASE Silence
  <2>1. Lines' = Lines /\ journal' = journal
    BY <1>3 DEF Silence, Lines
  <2>2. QED
    BY <1>1, <1>2, <2>1
<1>4. ASSUME NEW word, NEW by, Says(word, by),
             word = "begin" => Known(cur) /\ MayBeAdmitted(cur)
      PROVE  BegunAdmitted'
  <2>1. Admitted([line |-> word, conn |-> cur, by |-> by])
    BY <1>4 DEF Known
  <2>2. /\ Len(journal) \in Nat /\ Lines = 1 .. Len(journal)
        /\ Lines' = 1 .. (Len(journal) + 1)
        /\ \A i \in Lines : journal'[i] = journal[i]
        /\ journal'[Len(journal) + 1] = [line |-> word, conn |-> cur, by |-> by]
    BY <1>4, OneMoreLine
  <2> HIDE DEF Admitted
  <2>3. ASSUME NEW i \in Lines' PROVE Admitted(journal'[i])
    <3>1. CASE i \in Lines
      BY <1>1, <2>2, <3>1
    <3>2. CASE i \notin Lines
      BY <2>1, <2>2, <3>2
    <3>3. QED
      BY <3>1, <3>2
  <2>4. QED
    BY <1>2, <2>3
<1>5. CASE \E word \in Word \ {"begin"}, by \in {NoLabel, Display(caller), label} :
             Says(word, by)
  BY <1>4, <1>5
<1>6. CASE Begin /\ Says("begin", Describe)
  <2>1. Known(cur) /\ MayBeAdmitted(cur)
    BY <1>6 DEF Begin, InHandAdmitted, HeldIsTheConnectors, Serving, Turn
  <2>2. QED
    BY <1>4, <1>6, <2>1
<1>7. QED
  BY <1>3, <1>5, <1>6, WhatIsSaid DEF Word

LEMMA AdmissionStep == AdmissionInv /\ [Next]_vars => AdmissionInv'
BY AttributedStep, BracketedStep, InHandStep, AnsweredStep, BegunStep DEF AdmissionInv

\* Whatever fails on the way and whatever a client becomes, nobody is worked
\* for whom the authorizer refuses, and no gated call unannounced.
THEOREM WorkAnnounced == Spec => []WorkIsAnnounced
<1>1. AdmissionInv => WorkIsAnnounced
  <2> SUFFICES ASSUME AdmissionInv PROVE WorkIsAnnounced
    OBVIOUS
  <2> USE DEF AdmissionInv
  <2> DEFINE begun == {journal[i].conn : i \in {i \in Lines : journal[i].line = "begin"}}
             inhand == IF pc \in {"read", "reply", "finish"} THEN {cur} ELSE {}
             worked == answered \cup inhand
  <2>1. \A c \in worked \cup begun : MayBeAdmitted(c)
    BY DEF InHandAdmitted, AnsweredAdmitted, BegunAdmitted, Serving
  <2>2. ASSUME config.call = Gated PROVE worked \subseteq begun
    <3>1. answered \subseteq begun
      BY <2>2 DEF AnsweredAdmitted, is_audited, Begun
    <3>2. inhand \subseteq begun
      BY <2>2, LastLine DEF BracketInv, AnnouncedLast, Serving, is_audited
    <3>3. QED
      BY <3>1, <3>2
  <2>3. ASSUME config.call = Unprivileged PROVE begun = {}
    BY <2>3 DEF BracketInv, OnlyAuditedBegin, is_audited, Gated, Unprivileged
  <2>4. QED
    BY <2>1, <2>2, <2>3 DEF WorkIsAnnounced
<1>2. QED
  BY AdmittedInitially, AdmissionStep, <1>1, PTL DEF Spec

\* What the documentation says of every gate that names nobody holds of those
\* that reject the unreadable: PeerGate::default() is the exception.
THEOREM RejectingGateRefuses ==
  Spec => []((config.authorizer.kind = "PeerGate"
                => config.authorizer.reject_unreadable_caller)
             => EmptyGateRefuses)
<1> DEFINE Rejecting == config.authorizer.kind = "PeerGate"
                          => config.authorizer.reject_unreadable_caller
<1>1. AdmissionInv => (Rejecting => EmptyGateRefuses)
  <2> SUFFICES ASSUME AdmissionInv, Rejecting, NEW c \in answered,
                      config.authorizer.kind = "PeerGate",
                      config.authorizer.allowed_uids = {},
                      config.authorizer.allowed_gids = {}
               PROVE  FALSE
    BY DEF EmptyGateRefuses
  <2>1. MayBeAdmitted(c)
    BY DEF AdmissionInv, AnsweredAdmitted
  <2>2. QED
    BY <2>1 DEF MayBeAdmitted
<1>2. QED
  BY AdmittedInitially, AdmissionStep, <1>1, PTL DEF Spec

-----------------------------------------------------------------------------
(***************************************************************************)
(* The deadline, from the moment it is set to the last byte read.          *)
(***************************************************************************)
DeadlineSet ==
  pc \in {"authorize", "begin", "read"} =>
    \/ config.request_read_timeout = "Some" /\ deadline = "request"
    \/ config.request_read_timeout = "None" /\ deadline = "none"

LEMMA DeadlineStep == TypeInv /\ DeadlineSet /\ [Next]_vars => DeadlineSet'
<1> SUFFICES ASSUME TypeInv, DeadlineSet, [Next]_vars PROVE DeadlineSet'
  OBVIOUS
<1> USE DEF DeadlineSet
<1>1. config' = config
  BY ConfigStays
<1>2. CASE \E c \in Client : ClientStep(c)
  BY <1>1, <1>2 DEF ClientStep, request
<1>3. CASE NameResolves \/ Crash \/ UNCHANGED vars
  BY <1>1, <1>3 DEF NameResolves, Crash, vars, request
<1>4. CASE Start \/ Accept \/ OfSocket \/ Read \/ Reply \/ Finish
  BY <1>1, <1>4 DEF Start, Accept, OfSocket, Read, Reply, Finish, Close
<1>5. CASE SetReadTimeout
  <2>1. config.request_read_timeout \in {"None", "zero", "Some"}
    BY GatekeeperAssumption DEF GatekeeperAssumption, TypeInv, TypeOK
  <2>2. QED
    BY <1>1, <1>5, <2>1 DEF SetReadTimeout, Close
<1>6. CASE Authorize \/ Begin
  BY <1>1, <1>6 DEF Authorize, Begin, Close, request
<1>7. QED
  BY <1>2, <1>3, <1>4, <1>5, <1>6 DEF Next, DaemonStep

\* No request is read under the heartbeat's deadline, nor under none unless
\* none was asked for.
THEOREM DeadlinesAreTheRequests == Spec => []DeadlineIsTheRequests
<1>1. Init => DeadlineSet
  BY DEF Init, DeadlineSet
<1>2. TypeInv /\ DeadlineSet => DeadlineIsTheRequests
  BY DEF DeadlineSet, DeadlineIsTheRequests
<1>3. QED
  BY TypeInitially, TypeStep, DeadlineStep, <1>1, <1>2, PTL DEF Spec

-----------------------------------------------------------------------------
(***************************************************************************)
(* Mediation: a connection is queued, then open while it is the one in     *)
(* hand, then closed for good; who was answered is in hand or closed.      *)
(***************************************************************************)
QueueWaits ==
  /\ \A i \in 1 .. Len(queue) : conn[queue[i]] = "queued"
  /\ \A i, j \in 1 .. Len(queue) : queue[i] = queue[j] => i = j

InHandIsOpen == IF pc \in Turn THEN conn[cur] = "open" ELSE cur = Nobody

AnsweredAreDone ==
  \A c \in answered : conn[c] = "closed" \/ (c = cur /\ pc = "finish")

LifeInv == TypeInv /\ QueueWaits /\ InHandIsOpen /\ AnsweredAreDone

LEMMA LifeInitially == Init => LifeInv
<1> SUFFICES ASSUME Init PROVE QueueWaits /\ InHandIsOpen /\ AnsweredAreDone
  BY TypeInitially DEF LifeInv
<1>1. QueueWaits
  BY DEF Init, QueueWaits
<1>2. InHandIsOpen /\ AnsweredAreDone
  BY DEF Init, InHandIsOpen, AnsweredAreDone, Turn
<1>3. QED
  BY <1>1, <1>2

LEMMA LifeThroughClient ==
  ASSUME LifeInv, NEW c \in Client, ClientStep(c)
  PROVE  QueueWaits' /\ InHandIsOpen' /\ AnsweredAreDone'
<1> USE DEF LifeInv, TypeInv, TypeOK, Turn
<1>1. UNCHANGED <<pc, cur, answered>>
  BY DEF ClientStep, request, told
<1>2. CASE Connect(c)
  <2>1. conn[c] = "out" /\ conn' = [conn EXCEPT ![c] = "queued"] /\ queue' = Append(queue, c)
    BY <1>2 DEF Connect
  <2>2. /\ Len(queue) \in Nat /\ Len(queue') = Len(queue) + 1
        /\ \A i \in 1 .. Len(queue) : queue'[i] = queue[i]
        /\ queue'[Len(queue) + 1] = c
    BY <2>1, AppendProperties
  <2>3. \A i \in 1 .. Len(queue) : queue[i] \in Client /\ queue[i] # c
    BY <2>1 DEF QueueWaits
  <2>4. \A i \in 1 .. Len(queue') : i \in 1 .. Len(queue) \/ i = Len(queue) + 1
    BY <2>2
  <2>5. QueueWaits'
    <3>1. \A i \in 1 .. Len(queue') : conn'[queue'[i]] = "queued"
      BY <2>1, <2>2, <2>3, <2>4 DEF QueueWaits
    <3>2. ASSUME NEW i \in 1 .. Len(queue'), NEW j \in 1 .. Len(queue'),
                 queue'[i] = queue'[j]
          PROVE  i = j
      <4>1. CASE i \in 1 .. Len(queue) /\ j \in 1 .. Len(queue)
        BY <2>2, <3>2, <4>1 DEF QueueWaits
      <4>2. CASE i \in 1 .. Len(queue) /\ j = Len(queue) + 1
        BY <2>2, <2>3, <3>2, <4>2
      <4>3. CASE i = Len(queue) + 1 /\ j \in 1 .. Len(queue)
        BY <2>2, <2>3, <3>2, <4>3
      <4>4. QED
        BY <2>4, <4>1, <4>2, <4>3
    <3>3. QED
      BY <3>1, <3>2 DEF QueueWaits
  <2>6. InHandIsOpen' /\ AnsweredAreDone'
    BY <1>1, <2>1 DEF InHandIsOpen, AnsweredAreDone
  <2>7. QED
    BY <2>5, <2>6
<1>3. CASE ~Connect(c)
  <2>1. UNCHANGED <<conn, queue>>
    BY <1>3 DEF ClientStep, ChangeCred, WriteRequest, ReadReply, HangUp
  <2>2. QED
    BY <1>1, <2>1 DEF QueueWaits, InHandIsOpen, AnsweredAreDone
<1>4. QED
  BY <1>2, <1>3

\* The connection in hand is not in the queue, so closing it disturbs nobody.
LEMMA LifeThroughClose ==
  ASSUME LifeInv, pc \in Turn, Close, UNCHANGED queue, answered' \subseteq answered \cup {cur}
  PROVE  QueueWaits' /\ InHandIsOpen' /\ AnsweredAreDone'
<1> USE DEF LifeInv, TypeInv, TypeOK, Turn
<1>1. /\ pc' = "accept" /\ cur' = Nobody
      /\ conn' = [c \in Client |-> IF c = cur THEN "closed" ELSE conn[c]]
  BY DEF Close, ForgetClients, ForgetRequest
<1>2. \A i \in 1 .. Len(queue) : queue[i] \in Client /\ queue[i] # cur
  BY DEF QueueWaits, InHandIsOpen
<1>3. QueueWaits'
  BY <1>1, <1>2 DEF QueueWaits
<1>4. InHandIsOpen' /\ AnsweredAreDone'
  BY <1>1 DEF InHandIsOpen, AnsweredAreDone
<1>5. QED
  BY <1>3, <1>4

LEMMA LifeThroughAccept ==
  ASSUME LifeInv, Accept
  PROVE  /\ QueueWaits' /\ InHandIsOpen' /\ AnsweredAreDone'
         /\ cur' \in Client /\ conn[cur'] = "queued"
         /\ conn' = [conn EXCEPT ![cur'] = "open"]
<1> USE DEF LifeInv, TypeInv, TypeOK, Turn
<1>1. /\ queue # <<>> /\ cur' = Head(queue) /\ queue' = Tail(queue)
      /\ conn' = [conn EXCEPT ![cur'] = "open"] /\ pc' = "of_socket" /\ pc = "accept"
      /\ answered' = answered
  BY DEF Accept, told
<1>2. /\ Len(queue) \in Nat /\ Len(queue) >= 1
      /\ Len(queue') = Len(queue) - 1
      /\ \A i \in 1 .. Len(queue') : queue'[i] = queue[i + 1]
      /\ cur' = queue[1]
  BY <1>1, HeadTailProperties, EmptySeq
<1>3. cur' \in Client /\ conn[cur'] = "queued"
  BY <1>2 DEF QueueWaits
<1>4. \A i \in 1 .. Len(queue') : i + 1 \in 1 .. Len(queue) /\ i + 1 # 1
  BY <1>2
<1>5. ASSUME NEW i \in 1 .. Len(queue')
      PROVE  queue'[i] \in Client /\ queue'[i] # cur' /\ conn[queue'[i]] = "queued"
  <2>1. /\ queue'[i] = queue[i + 1] /\ i + 1 \in 1 .. Len(queue)
        /\ 1 \in 1 .. Len(queue) /\ i + 1 # 1
    BY <1>2, <1>4
  <2>2. conn[queue[i + 1]] = "queued" /\ queue[i + 1] # queue[1]
    BY <2>1 DEF QueueWaits
  <2>3. queue[i + 1] \in Client
    BY <2>1
  <2>4. QED
    BY <1>2, <2>1, <2>2, <2>3
<1>6. ASSUME NEW i \in 1 .. Len(queue'), NEW j \in 1 .. Len(queue'), queue'[i] = queue'[j]
      PROVE  i = j
  <2>1. i + 1 \in 1 .. Len(queue) /\ j + 1 \in 1 .. Len(queue) /\ queue[i + 1] = queue[j + 1]
    BY <1>2, <1>4, <1>6
  <2>2. i + 1 = j + 1
    BY <2>1 DEF QueueWaits
  <2>3. QED
    BY <2>2
<1>7. QueueWaits'
  BY <1>1, <1>5, <1>6 DEF QueueWaits
<1>8. InHandIsOpen' /\ AnsweredAreDone'
  BY <1>1, <1>3 DEF InHandIsOpen, AnsweredAreDone
<1>9. QED
  BY <1>1, <1>3, <1>7, <1>8

LEMMA LifeStep == LifeInv /\ [Next]_vars => LifeInv'
<1> SUFFICES ASSUME LifeInv, [Next]_vars
             PROVE  QueueWaits' /\ InHandIsOpen' /\ AnsweredAreDone'
  BY TypeStep DEF LifeInv
<1> DEFINE Kept == QueueWaits' /\ InHandIsOpen' /\ AnsweredAreDone'
<1> USE DEF clients, request, told
<1>1. ASSUME UNCHANGED <<conn, queue, cur>>, answered' \subseteq answered \cup {cur},
             pc' \in Turn <=> pc \in Turn,
             answered' # answered => pc' = "finish",
             pc = "finish" => pc' = "finish"
      PROVE  Kept
  BY <1>1 DEF LifeInv, QueueWaits, InHandIsOpen, AnsweredAreDone
<1>2. CASE UNCHANGED vars
  BY <1>1, <1>2 DEF vars
<1>3. CASE NameResolves
  BY <1>1, <1>3 DEF NameResolves
<1>4. CASE Crash
  <2>1. /\ pc' = "down" /\ queue' = <<>> /\ answered' = answered /\ cur' = Nobody
        /\ conn' = [c \in Client |-> IF conn[c] # "out" THEN "closed" ELSE conn[c]]
    BY <1>4 DEF Crash, ForgetClients, ForgetRequest
  <2>2. QueueWaits'
    BY <2>1 DEF QueueWaits
  <2>3. InHandIsOpen' /\ AnsweredAreDone'
    BY <2>1 DEF LifeInv, TypeInv, TypeOK, InHandIsOpen, AnsweredAreDone, Turn
  <2>4. QED
    BY <2>2, <2>3
<1>5. CASE Start
  BY <1>1, <1>5 DEF Start, Turn
<1>6. CASE OfSocket
  BY <1>1, <1>6 DEF OfSocket, Turn
<1>7. CASE SetReadTimeout
  BY <1>1, <1>7, LifeThroughClose DEF SetReadTimeout, Turn
<1>8. CASE Authorize
  BY <1>1, <1>8, LifeThroughClose DEF Authorize, Turn
<1>9. CASE Begin
  BY <1>1, <1>9 DEF Begin, Turn
<1>10. CASE Read
  BY <1>1, <1>10 DEF Read, Turn
<1>11. CASE Reply
  BY <1>1, <1>11 DEF Reply, Turn
<1>12. CASE Finish
  BY <1>12, LifeThroughClose DEF Finish, Turn
<1>13. QED
  BY <1>2, <1>3, <1>4, <1>5, <1>6, <1>7, <1>8, <1>9, <1>10, <1>11, <1>12,
     LifeThroughClient, LifeThroughAccept DEF Next, DaemonStep

-----------------------------------------------------------------------------
(***************************************************************************)
(* Fates: what the journal tells of a connection is over when the          *)
(* connection is, and a connection that was told of is closed, or in hand. *)
(***************************************************************************)
Fates == {i \in Lines : journal[i].line \in {"refused", "begin"}}

\* A line of the journal that tells of a fate tells of a settled one.
Settled(line) ==
  /\ line.line = "refused" => conn[line.conn] = "closed"
  /\ line.line = "begin" =>
       conn[line.conn] = "closed" \/ (line.conn = cur /\ pc \in Serving)

FatesAreSettled == \A i \in Lines : Settled(journal[i])

FateInv == AttributionInv /\ LifeInv /\ FatesAreSettled /\ OneFate

LEMMA FateInitially == Init => FateInv
<1>1. Init => Lines = {}
  BY DEF Init, Lines
<1>2. QED
  BY <1>1, AttributedInitially, LifeInitially DEF FateInv, FatesAreSettled, OneFate

\* A connection that is closed is closed for good, and the one that is worked
\* for is worked for until it is closed.
LEMMA SettledStays ==
  ASSUME LifeInv, [Next]_vars, NEW c \in Client
  PROVE  /\ conn[c] = "closed" => conn'[c] = "closed"
         /\ c = cur /\ pc \in Serving =>
              conn'[c] = "closed" \/ (c = cur' /\ pc' \in Serving)
<1> USE DEF LifeInv, TypeInv, TypeOK, clients, request, told
<1> DEFINE Kept == /\ conn[c] = "closed" => conn'[c] = "closed"
                   /\ c = cur /\ pc \in Serving =>
                        conn'[c] = "closed" \/ (c = cur' /\ pc' \in Serving)
<1>1. CASE UNCHANGED <<conn, cur, pc>>
  BY <1>1
<1>2. CASE Close
  BY <1>2 DEF Close, ForgetClients
<1>3. CASE UNCHANGED conn /\ (pc' \in Serving \/ pc \notin Serving) /\ UNCHANGED cur
  BY <1>3
<1>4. ASSUME NEW d \in Client, ClientStep(d) PROVE Kept
  BY <1>4 DEF ClientStep, Connect, ChangeCred, WriteRequest, ReadReply, HangUp, Serving
<1>5. CASE NameResolves \/ UNCHANGED vars
  BY <1>1, <1>5 DEF NameResolves, vars
<1>6. CASE Crash
  BY <1>6 DEF Crash, ForgetClients, InHandIsOpen, Turn, Serving
<1>7. CASE Accept
  <2>1. cur' \in Client /\ conn[cur'] = "queued" /\ conn' = [conn EXCEPT ![cur'] = "open"]
    BY <1>7, LifeThroughAccept
  <2>2. pc \notin Serving
    BY <1>7 DEF Accept, Serving
  <2>3. QED
    BY <2>1, <2>2
<1>8. CASE DaemonStep /\ ~Accept /\ ~Close
  BY <1>3, <1>8 DEF DaemonStep, Start, OfSocket, SetReadTimeout, Authorize, Begin, Read,
                    Reply, Finish, Serving
<1>9. QED
  BY <1>2, <1>4, <1>5, <1>6, <1>7, <1>8 DEF Next

\* The connection the loop has not begun to work for has no fate yet.
LEMMA NoFateYet ==
  ASSUME FateInv, pc \in {"authorize", "begin"}
  PROVE  /\ \A i \in Fates : journal[i].conn # cur
         /\ cur \notin answered
<1>1. conn[cur] = "open" /\ pc \notin Serving
  BY DEF FateInv, LifeInv, InHandIsOpen, Turn, Serving
<1>2. \A i \in Fates : journal[i].conn # cur
  BY <1>1 DEF FateInv, FatesAreSettled, Settled, Fates
<1>3. cur \notin answered
  BY <1>1 DEF FateInv, LifeInv, AnsweredAreDone
<1>4. QED
  BY <1>2, <1>3

\* A reply goes to the connection in hand, and that one was not refused.
LEMMA RefusedStayUnanswered ==
  ASSUME FateInv, [Next]_vars, NEW i \in Lines, journal[i].line = "refused"
  PROVE  journal[i].conn \notin answered'
<1>1. journal[i].conn \notin answered /\ conn[journal[i].conn] = "closed"
  BY DEF FateInv, OneFate, FatesAreSettled, Settled
<1>2. pc = "reply" => conn[cur] = "open"
  BY DEF FateInv, LifeInv, InHandIsOpen, Turn
<1>3. QED
  BY <1>1, <1>2, AnswersInFlight

LEMMA SettledStep ==
  ASSUME FateInv, [Next]_vars
  PROVE  FatesAreSettled'
<1> DEFINE After(line) ==
      /\ line.line = "refused" => conn'[line.conn] = "closed"
      /\ line.line = "begin" =>
           conn'[line.conn] = "closed" \/ (line.conn = cur' /\ pc' \in Serving)
<1> USE DEF FateInv
<1>1. ASSUME NEW i \in Lines PROVE After(journal[i])
  <2>1. journal[i].line \in {"refused", "begin"} => journal[i].conn \in Client
    BY DEF AttributionInv, LinesAreKnown, Known
  <2>2. Settled(journal[i])
    BY DEF FatesAreSettled
  <2>3. QED
    BY <2>1, <2>2, SettledStays DEF Settled
<1>2. ASSUME \A i \in Lines' : After(journal'[i]) PROVE FatesAreSettled'
  BY <1>2 DEF FatesAreSettled, Settled
<1>3. CASE Silence
  <2>1. Lines' = Lines /\ journal' = journal
    BY <1>3 DEF Silence, Lines
  <2>2. QED
    BY <1>1, <1>2, <2>1
<1>4. ASSUME NEW word, NEW by, Says(word, by),
             After([line |-> word, conn |-> cur, by |-> by])
      PROVE  FatesAreSettled'
  <2> HIDE DEF After
  <2>1. /\ Len(journal) \in Nat /\ Lines = 1 .. Len(journal)
        /\ Lines' = 1 .. (Len(journal) + 1)
        /\ \A i \in Lines : journal'[i] = journal[i]
        /\ journal'[Len(journal) + 1] = [line |-> word, conn |-> cur, by |-> by]
    BY <1>4, OneMoreLine DEF AttributionInv
  <2>2. \A i \in Lines' : i \in Lines \/ i = Len(journal) + 1
    BY <2>1
  <2>3. \A i \in Lines' : After(journal'[i])
    BY <1>1, <1>4, <2>1, <2>2
  <2>4. QED
    BY <1>2, <2>3
<1>5. CASE \E word \in Word \ {"begin", "refused"}, by \in {NoLabel, label} : Says(word, by)
  BY <1>4, <1>5
<1>6. CASE Authorize /\ Close /\ Says("refused", Display(caller))
  <2>1. cur \in Client
    BY <1>6 DEF Authorize, AttributionInv, TypeInv, Turn
  <2>2. conn'[cur] = "closed"
    BY <1>6, <2>1 DEF Close, ForgetClients
  <2>3. QED
    BY <1>4, <1>6, <2>2
<1>7. CASE Begin /\ Says("begin", Describe)
  <2>1. cur' = cur /\ pc' \in Serving
    BY <1>7 DEF Begin, Serving
  <2>2. QED
    BY <1>4, <1>7, <2>1
<1>8. QED
  BY <1>3, <1>5, <1>6, <1>7, WhatIsSaid DEF AttributionInv, Word

LEMMA OneFateStep ==
  ASSUME FateInv, [Next]_vars
  PROVE  OneFate'
<1> USE DEF FateInv
<1>1. CASE Silence
  <2>1. Lines' = Lines /\ journal' = journal
    BY <1>1 DEF Silence, Lines
  <2>2. QED
    BY <2>1, RefusedStayUnanswered DEF OneFate
<1>2. ASSUME NEW word, NEW by, Says(word, by),
             word \in {"refused", "begin"} => pc \in {"authorize", "begin"},
             word = "refused" => answered' = answered
      PROVE  OneFate'
  <2> DEFINE new == Len(journal) + 1
  <2>1. /\ Len(journal) \in Nat /\ Lines = 1 .. Len(journal)
        /\ Lines' = 1 .. new
        /\ \A i \in Lines : journal'[i] = journal[i]
        /\ journal'[new] = [line |-> word, conn |-> cur, by |-> by]
    BY <1>2, OneMoreLine DEF AttributionInv
  <2>2. /\ \A i \in Lines' : i \in Lines \/ i = new
        /\ new \notin Lines
    BY <2>1
  <2>3. ASSUME NEW i \in Fates, word \in {"refused", "begin"}
        PROVE  journal[i].conn # cur
    BY <1>2, <2>3, NoFateYet
  <2>4. word = "refused" => cur \notin answered'
    BY <1>2, NoFateYet
  <2> HIDE DEF new
  <2>5. ASSUME NEW i \in Lines', NEW j \in Lines',
               journal'[i].line \in {"refused", "begin"},
               journal'[j].line \in {"refused", "begin"},
               journal'[i].conn = journal'[j].conn
        PROVE  i = j
    <3>1. CASE i \in Lines /\ j \in Lines
      BY <2>1, <2>5, <3>1 DEF OneFate
    <3>2. CASE i \in Lines /\ j = new
      <4>1. i \in Fates /\ word \in {"refused", "begin"} /\ journal[i].conn = cur
        BY <2>1, <2>5, <3>2 DEF Fates
      <4>2. QED
        BY <2>3, <4>1
    <3>3. CASE i = new /\ j \in Lines
      <4>1. j \in Fates /\ word \in {"refused", "begin"} /\ journal[j].conn = cur
        BY <2>1, <2>5, <3>3 DEF Fates
      <4>2. QED
        BY <2>3, <4>1
    <3>4. QED
      BY <2>2, <3>1, <3>2, <3>3
  <2>6. ASSUME NEW i \in Lines', journal'[i].line = "refused"
        PROVE  journal'[i].conn \notin answered'
    <3>1. CASE i \in Lines
      BY <2>1, <2>6, <3>1, RefusedStayUnanswered
    <3>2. CASE i = new
      BY <2>1, <2>4, <2>6, <3>2
    <3>3. QED
      BY <2>2, <3>1, <3>2
  <2>7. QED
    BY <2>5, <2>6 DEF OneFate
<1>3. CASE \E word \in Word \ {"begin", "refused"}, by \in {NoLabel, label} : Says(word, by)
  BY <1>2, <1>3
<1>4. CASE Authorize /\ Says("refused", Display(caller))
  BY <1>2, <1>4 DEF Authorize
<1>5. CASE Begin /\ Says("begin", Describe)
  BY <1>2, <1>5 DEF Begin
<1>6. QED
  BY <1>1, <1>3, <1>4, <1>5, WhatIsSaid DEF AttributionInv, Word

LEMMA FateStep == FateInv /\ [Next]_vars => FateInv'
BY AttributedStep, LifeStep, SettledStep, OneFateStep DEF FateInv

\* No connection is told of twice, none is both refused and worked for, and no
\* refused one is answered, over any number of connections, faults and crashes.
THEOREM FatesAreOne == Spec => []OneFate
<1>1. FateInv => OneFate
  BY DEF FateInv
<1>2. QED
  BY FateInitially, FateStep, <1>1, PTL DEF Spec

-----------------------------------------------------------------------------
(***************************************************************************)
(* The refinement: what the instance of Mediation is, and how it moves.    *)
(***************************************************************************)
Been == {c \in Client : conn[c] # "out"}

Welcome == {c \in Client : Awaits(c) /\ MayBeAdmitted(c)}

Open == IF pc \in {"read", "reply", "finish"} THEN {[conn |-> cur, by |-> label]} ELSE {}

MediatedStep == [Mediated!MediationNext]_(Mediated!mediationVars)

LEMMA MediatedInitially == Init => Mediated!MediationInit
<1> SUFFICES ASSUME Init PROVE Mediated!MediationInit
  OBVIOUS
<1>1. Been = {} /\ Welcome = {} /\ Open = {} /\ answered = {} /\ journal = <<>>
  BY DEF Init, Been, Welcome, Awaits, Open
<1>2. is_audited \in BOOLEAN
  BY DEF is_audited
<1>3. QED
  BY <1>1, <1>2 DEF Mediated!MediationInit, Been, Welcome, Open

LEMMA StandingKept ==
  ASSUME LifeInv, [Next]_vars
  PROVE  /\ \A c \in Been : MayBeAdmitted(c)' <=> MayBeAdmitted(c)
         /\ is_audited' = is_audited
<1>1. config' = config
  BY ConfigStays
<1>2. \A c \in Been : peer'[c] = peer[c]
  BY PeersStay DEF Been, LifeInv
<1>3. QED
  BY <1>1, <1>2 DEF MayBeAdmitted, is_audited

\* A step nothing of which is seen of the outside.
LEMMA UnseenStep ==
  ASSUME Been' = Been, Welcome' = Welcome, Open' = Open,
         UNCHANGED <<journal, answered>>, is_audited' = is_audited
  PROVE  MediatedStep
BY DEF MediatedStep, Mediated!mediationVars, Been, Welcome, Open

\* What is welcome after a step is what was and still awaits its turn.
LEMMA WelcomeAfter ==
  ASSUME LifeInv, [Next]_vars, Been' = Been
  PROVE  Welcome' = {c \in Client : Awaits(c)' /\ MayBeAdmitted(c)}
<1>1. \A c \in Client : Awaits(c)' => c \in Been
  BY DEF Awaits, Been
<1>2. \A c \in Been : MayBeAdmitted(c)' <=> MayBeAdmitted(c)
  BY StandingKept
<1>3. QED
  BY <1>1, <1>2 DEF Welcome

LEMMA ClientMediated ==
  ASSUME LifeInv, NEW c \in Client, ClientStep(c)
  PROVE  MediatedStep
<1> USE DEF LifeInv, TypeInv, TypeOK
<1>0. [Next]_vars
  BY DEF Next
<1>1. UNCHANGED <<pc, cur, label, journal, answered>> /\ Open' = Open
  BY DEF ClientStep, request, told, Open
<1>2. is_audited' = is_audited
  BY <1>0, StandingKept
<1>3. CASE Connect(c)
  <2>1. conn[c] = "out" /\ conn' = [conn EXCEPT ![c] = "queued"]
    BY <1>3 DEF Connect
  <2>2. c \notin Been /\ Been' = Been \cup {c}
    BY <2>1 DEF Been
  <2>3. \A d \in Been : MayBeAdmitted(d)' <=> MayBeAdmitted(d)
    BY <1>0, StandingKept
  <2>4. \A d \in Client : d # c => (Awaits(d)' <=> Awaits(d))
    BY <1>1, <2>1 DEF Awaits
  <2>5. \A d \in Client : Awaits(d) => d \in Been
    BY DEF Awaits, Been
  <2>6. Welcome' \in {Welcome, Welcome \cup {c}}
    BY <2>2, <2>3, <2>4, <2>5 DEF Welcome
  <2>7. Mediated!Arrive(c)
    BY <1>1, <1>2, <2>2, <2>6 DEF Mediated!Arrive, Been, Welcome, Open
  <2>8. QED
    BY <2>7 DEF MediatedStep, Mediated!MediationNext
<1>4. CASE ~Connect(c)
  <2>1. conn' = conn
    BY <1>4 DEF ClientStep, ChangeCred, WriteRequest, ReadReply, HangUp
  <2>2. Been' = Been /\ \A d \in Client : Awaits(d)' <=> Awaits(d)
    BY <1>1, <2>1 DEF Been, Awaits
  <2>3. Welcome' = Welcome
    BY <1>0, <2>2, WelcomeAfter DEF Welcome
  <2>4. QED
    BY <1>1, <1>2, <2>2, <2>3, UnseenStep
<1>5. QED
  BY <1>3, <1>4

\* Closing the connection in hand takes it from among the welcome.
LEMMA CloseMediated ==
  ASSUME LifeInv, [Next]_vars, pc \in Turn, Close
  PROVE  Been' = Been /\ Welcome' = Welcome \ {cur} /\ Open' = {}
<1> USE DEF LifeInv, TypeInv, TypeOK, Turn
<1>1. /\ pc' = "accept" /\ cur \in Client /\ conn[cur] = "open"
      /\ conn' = [c \in Client |-> IF c = cur THEN "closed" ELSE conn[c]]
  BY DEF Close, ForgetClients, InHandIsOpen
<1>2. Been' = Been /\ Open' = {}
  BY <1>1 DEF Been, Open
<1>3. \A c \in Client : Awaits(c)' <=> Awaits(c) /\ c # cur
  BY <1>1 DEF Awaits
<1>4. QED
  BY <1>2, <1>3, WelcomeAfter DEF Welcome

LEMMA DaemonMediated ==
  ASSUME LifeInv, AttributionInv, BracketInv, InHandAdmitted, DaemonStep
  PROVE  MediatedStep
<1> USE DEF LifeInv, TypeInv, TypeOK, Turn
<1>0. [Next]_vars /\ is_audited' = is_audited
  BY StandingKept DEF Next
<1>1. ASSUME UNCHANGED <<cur, label, journal, answered>>, conn' = conn,
             pc' \in Serving <=> pc \in Serving
      PROVE  MediatedStep
  <2>1. Been' = Been /\ Open' = Open /\ \A c \in Client : Awaits(c)' <=> Awaits(c)
    BY <1>1 DEF Been, Open, Awaits, Serving
  <2>2. Welcome' = Welcome
    BY <1>0, <2>1, WelcomeAfter DEF Welcome
  <2>3. QED
    BY <1>0, <1>1, <2>1, <2>2, UnseenStep
<1>2. ASSUME NEW word \in Word, NEW by \in Label, Say(word, by)
      PROVE  journal' = Append(journal, [line |-> word, conn |-> cur, by |-> by])
  BY <1>2, OneLineSaid
<1>3. CASE Start
  <2>1. /\ pc = "down" /\ pc' = "accept" /\ conn' = conn /\ cur' = cur /\ label' = label
        /\ answered' = answered /\ Say("serving", NoLabel)
    BY <1>3 DEF Start, clients, request
  <2>2. cur = Nobody
    BY <2>1 DEF InHandIsOpen
  <2>3. journal' = Append(journal, [line |-> "serving", conn |-> Nobody, by |-> NoLabel])
    BY <1>2, <2>1, <2>2, NoLabelIsLabel DEF Word
  <2>4. Been' = Been /\ Open = {} /\ Open' = {} /\ \A c \in Client : Awaits(c)' <=> Awaits(c)
    BY <2>1 DEF Been, Open, Awaits
  <2>5. Welcome' = Welcome
    BY <1>0, <2>4, WelcomeAfter DEF Welcome
  <2>6. Mediated!Start
    BY <1>0, <2>1, <2>3, <2>4, <2>5 DEF Mediated!Start, Been, Welcome, Open
  <2>7. QED
    BY <2>6 DEF MediatedStep, Mediated!MediationNext
<1>4. CASE Accept
  <2>1. /\ pc = "accept" /\ pc' = "of_socket" /\ UNCHANGED <<journal, answered>>
        /\ cur' \in Client /\ conn[cur'] = "queued" /\ conn' = [conn EXCEPT ![cur'] = "open"]
    BY <1>4, LifeThroughAccept DEF Accept, told
  <2>2. Been' = Been /\ Open' = Open
    BY <2>1 DEF Been, Open
  <2>3. \A c \in Client : Awaits(c)' <=> Awaits(c)
    BY <2>1 DEF Awaits
  <2>4. Welcome' = Welcome
    BY <1>0, <2>2, <2>3, WelcomeAfter DEF Welcome
  <2>5. QED
    BY <1>0, <2>1, <2>2, <2>4, UnseenStep
<1>5. CASE OfSocket
  BY <1>1, <1>5 DEF OfSocket, clients, told, Serving
<1>6. CASE SetReadTimeout
  <2>1. CASE Close
    <3>1. pc \in Turn /\ pc \notin Serving /\ cur \in Client /\ UNCHANGED <<journal, answered>>
      BY <1>6 DEF SetReadTimeout, told, Serving
    <3>2. Been' = Been /\ Welcome' = Welcome \ {cur} /\ Open = {} /\ Open' = {}
      BY <1>0, <2>1, <3>1, CloseMediated DEF Open, Serving
    <3>3. Mediated!Lose(cur)
      BY <1>0, <3>1, <3>2 DEF Mediated!Lose, Been, Welcome, Open
    <3>4. QED
      BY <3>1, <3>3 DEF MediatedStep, Mediated!MediationNext
  <2>2. CASE ~Close
    BY <1>1, <1>6, <2>2 DEF SetReadTimeout, clients, told, Serving
  <2>3. QED
    BY <2>1, <2>2
<1>7. CASE Authorize
  <2>1. CASE pc' = "begin" /\ UNCHANGED <<clients, request, journal>>
    BY <1>1, <1>7, <2>1 DEF Authorize, clients, request, Serving
  <2>2. CASE Say("refused", Display(caller)) /\ Close
    <3>1. pc = "authorize" /\ answered' = answered /\ cur \in Client /\ conn[cur] = "open"
      BY <1>7 DEF Authorize, InHandIsOpen
    <3>2. Display(caller) \in Label
      BY LabelsDisplayed
    <3>3. journal' =
            Append(journal, [line |-> "refused", conn |-> cur, by |-> Display(caller)])
      BY <1>2, <2>2, <3>2 DEF Word
    <3>4. Been' = Been /\ Welcome' = Welcome \ {cur} /\ Open = {} /\ Open' = {}
      BY <1>0, <2>2, <3>1, CloseMediated DEF Open
    <3>5. cur \in Been \ answered
      BY <3>1 DEF Been, AnsweredAreDone
    <3>6. Mediated!Refuse(cur)
      BY <1>0, <3>1, <3>2, <3>3, <3>4, <3>5
         DEF Mediated!Refuse, Mediated!Line, Mediated!Operation, Been, Welcome, Open
    <3>7. QED
      BY <3>1, <3>6 DEF MediatedStep, Mediated!MediationNext
  <2>3. QED
    BY <1>7, <2>1, <2>2 DEF Authorize
<1>8. CASE Begin
  <2>1. /\ pc = "begin" /\ pc' = "read" /\ cur \in Client /\ cur' = cur /\ conn' = conn
        /\ conn[cur] = "open" /\ answered' = answered
    BY <1>8 DEF Begin, InHandIsOpen, clients
  <2>2. label' \in Label
    BY <1>8, LabelsDisplayed DEF Begin, Describe
  <2>3. journal' = IF is_audited
                     THEN Append(journal, [line |-> "begin", conn |-> cur, by |-> label'])
                     ELSE journal
    <3>1. Describe \in Label
      BY LabelsDisplayed DEF Describe
    <3>2. QED
      BY <1>2, <1>8, <3>1 DEF Begin, Word
  <2>4. Been' = Been /\ Open = {} /\ Open' = {[conn |-> cur, by |-> label']}
    BY <2>1 DEF Been, Open
  <2>5. cur \in Welcome
    BY <2>1 DEF Welcome, Awaits, InHandAdmitted
  <2>6. \A c \in Client : Awaits(c)' <=> Awaits(c) /\ c # cur
    BY <2>1 DEF Awaits
  <2>7. Welcome' = Welcome \ {cur}
    BY <1>0, <2>4, <2>6, WelcomeAfter DEF Welcome
  <2>8. Mediated!Begin(cur)
    BY <1>0, <2>1, <2>2, <2>3, <2>4, <2>5, <2>7
       DEF Mediated!Begin, Mediated!Put, Mediated!Line, Mediated!Operation, Been, Welcome, Open
  <2>9. QED
    BY <2>1, <2>8 DEF MediatedStep, Mediated!MediationNext
<1>9. CASE Read
  BY <1>1, <1>9 DEF Read, clients, told, Serving
<1>10. CASE Reply
  <2>1. /\ pc = "reply" /\ pc' = "finish" /\ conn' = conn /\ cur' = cur /\ label' = label
        /\ journal' = journal /\ answered' \in {answered, answered \cup {cur}}
    BY <1>10 DEF Reply, clients
  <2>2. CASE answered' = answered
    BY <1>1, <2>1, <2>2 DEF Serving
  <2>3. CASE answered' = answered \cup {cur}
    <3>1. Been' = Been /\ Open' = Open /\ Open = {[conn |-> cur, by |-> label]}
      BY <2>1 DEF Been, Open
    <3>2. \A c \in Client : Awaits(c)' <=> Awaits(c)
      BY <2>1 DEF Awaits
    <3>3. Welcome' = Welcome
      BY <1>0, <3>1, <3>2, WelcomeAfter DEF Welcome
    <3>4. Mediated!Answer
      BY <1>0, <2>1, <2>3, <3>1, <3>3 DEF Mediated!Answer, Been, Welcome, Open
    <3>5. QED
      BY <3>4 DEF MediatedStep, Mediated!MediationNext
  <2>4. QED
    BY <2>1, <2>2, <2>3
<1>11. CASE Finish
  <2>1. pc = "finish" /\ Close /\ answered' = answered /\ cur \in Client
    BY <1>11 DEF Finish
  <2>2. Been' = Been /\ Welcome' = Welcome \ {cur} /\ Open' = {}
    BY <1>0, <2>1, CloseMediated
  <2>3. cur \notin Welcome /\ Open = {[conn |-> cur, by |-> label]}
    BY <2>1 DEF Welcome, Awaits, Open, InHandIsOpen
  <2>4. \E outcome \in {"ok", "failed"} :
          journal' = IF is_audited
                       THEN Append(journal, [line |-> outcome, conn |-> cur, by |-> label])
                       ELSE journal
    BY <1>2, <1>11 DEF Finish, Word
  <2>5. Mediated!Finish
    BY <1>0, <2>1, <2>2, <2>3, <2>4
       DEF Mediated!Finish, Mediated!Put, Mediated!Line, Been, Welcome, Open
  <2>6. QED
    BY <2>5 DEF MediatedStep, Mediated!MediationNext
<1>12. QED
  BY <1>3, <1>4, <1>5, <1>6, <1>7, <1>8, <1>9, <1>10, <1>11 DEF DaemonStep

LEMMA CrashMediated ==
  ASSUME LifeInv, Crash
  PROVE  MediatedStep
<1> USE DEF LifeInv, TypeInv, TypeOK
<1>0. is_audited' = is_audited
  BY StandingKept DEF Next
<1>1. /\ pc' = "down" /\ journal' = journal /\ answered' = answered
      /\ conn' = [c \in Client |-> IF conn[c] # "out" THEN "closed" ELSE conn[c]]
  BY DEF Crash, ForgetClients, told
<1>2. Been' = Been /\ Welcome' = {} /\ Open' = {}
  BY <1>1 DEF Been, Welcome, Awaits, Open
<1>3. Mediated!Die
  BY <1>0, <1>1, <1>2 DEF Mediated!Die, Been, Welcome, Open
<1>4. QED
  BY <1>3 DEF MediatedStep, Mediated!MediationNext

LEMMA MediatedNext ==
  LifeInv /\ AdmissionInv /\ [Next]_vars => MediatedStep
<1> SUFFICES ASSUME LifeInv, AdmissionInv, [Next]_vars PROVE MediatedStep
  OBVIOUS
<1>1. CASE NameResolves \/ UNCHANGED vars
  <2>1. UNCHANGED <<config, clients, pc, cur, label, journal, answered>>
    BY <1>1 DEF NameResolves, vars, request, told
  <2>2. Been' = Been /\ Welcome' = Welcome /\ Open' = Open /\ is_audited' = is_audited
    BY <2>1 DEF Been, Welcome, Open, Awaits, MayBeAdmitted, is_audited, clients
  <2>3. QED
    BY <2>1, <2>2, UnseenStep
<1>2. QED
  BY <1>1, ClientMediated, DaemonMediated, CrashMediated DEF Next, AdmissionInv

\* The loop of the example over the library's parts implements what the gate
\* and the audit trail promise, for any clients, policy, faults and crashes.
THEOREM LoopMediates == Spec => ImplementsMediation
<1>1. LifeInv /\ AdmissionInv /\ [Next]_vars
        => [Mediated!MediationNext]_(Mediated!mediationVars)
  BY MediatedNext DEF MediatedStep
<1>2. QED
  BY LifeInitially, LifeStep, AdmittedInitially, AdmissionStep, MediatedInitially, <1>1, PTL
     DEF Spec, ImplementsMediation, Mediated!MediationSpec

=============================================================================
