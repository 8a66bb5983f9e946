----------------------------- MODULE Handshake ------------------------------
(***************************************************************************)
(* The login: Client.Connect (src/client/client.go) called again and again *)
(* on one Client, and for each attempt the connection of the server that   *)
(* reads the login, checks it (readPacket of src/server/server.go and      *)
(* handleLogin of src/examples/server/main.go) and answers, while its      *)
(* active-test goroutine writes to the same socket.                        *)
(*                                                                         *)
(* An id is a name and a length: padding or cutting it to the eight bytes  *)
(* of its field changes the length only.  An authenticator is what was     *)
(* hashed: an id, and the secret; the time stamp travels in the packet and *)
(* is the same at both ends.                                               *)
(***************************************************************************)
EXTENDS Integers, Sequences

CONSTANTS
  Names, Lens, Secrets, Versions,  \* what a login is made of
  Name, Secret, Version,           \* the server's
  N,                               \* Server.N
  MaxTries                         \* bound: connections the client dials

ASSUME HandshakeAssumption ==
  /\ Lens \subseteq Nat \ {0}
  /\ Name \in Names /\ Secret \in Secrets /\ Version \in Versions
  /\ N \in Nat \ {0} /\ MaxTries \in Nat

VARIABLES
  user,     \* the id the server knows
  login,    \* per attempt: the id, secret and version Connect was given
  timeout,  \* of the attempt under way; 0 is none
  outcome,  \* per attempt: "none", "pending", or what Connect returned
  cpc,      \* the caller: "idle", "send" or "recv" in Connect
  cli,      \* the attempt whose connection Client.conn is; 0 before any
  open,     \* attempts whose connection the client has not closed
  srv,      \* per attempt: the server's side, "none", "serve", "bye", "gone"
  tests,    \* per attempt: active tests sent
  c2s, s2c  \* per attempt: packets under way

cliVars == <<login, timeout, outcome, cpc, cli, open>>
srvVars == <<srv, tests>>
vars == <<user, cliVars, srvVars, c2s, s2c>>

Tries == 1..MaxTries
IdSet == [name : Names, len : Lens]
LoginSet == [id : IdSet, secret : Secrets, version : Versions]
Timeouts == {0, 3}
Failures == {"sendErr", "timeout", "eof", "notMatch", "rejected"}

\* NewOctetString(id).Byte(8)
Byte8(id) == [id EXCEPT !.len = 8]

\* GenAuthenticatorClient
Auth(id, secret) == <<id, secret>>

\* The login packet: Pack hashes the id as it was given and then pads it.
LoginReq(l) == [tag |-> "LoginReq", id |-> Byte8(l.id),
                auth |-> Auth(l.id, l.secret), version |-> l.version]
LoginResp(status) == [tag |-> "LoginResp", status |-> status]
\* An active test, and the exit request of close(), which is packed as one.
Test == [tag |-> "ActiveTestReq"]

Init ==
  /\ user \in [name : {Name}, len : Lens]
  /\ login = [a \in Tries |-> CHOOSE l \in LoginSet : TRUE]
  /\ timeout = 0 /\ outcome = [a \in Tries |-> "none"]
  /\ cpc = "idle" /\ cli = 0 /\ open = {}
  /\ srv = [a \in Tries |-> "none"] /\ tests = [a \in Tries |-> 0]
  /\ c2s = [a \in Tries |-> <<>>] /\ s2c = [a \in Tries |-> <<>>]

\* Actions and operators named ..._faulty are not used by Next: each is the
\* one that follows it with a plausible error that a property must expose.

-----------------------------------------------------------------------------
\* Connect

\* net.DialTimeout and NewConnection; a dial that fails changes nothing.  The
\* connection of an earlier attempt is forgotten, not closed.
Dial(l) ==
  /\ cpc = "idle" /\ cli < MaxTries
  /\ cli' = cli + 1
  /\ cpc' = "send"
  /\ login' = [login EXCEPT ![cli + 1] = l]
  /\ timeout' \in Timeouts
  /\ outcome' = [outcome EXCEPT ![cli + 1] = "pending"]
  /\ open' = open \cup {cli + 1}
  /\ srv' = [srv EXCEPT ![cli + 1] = "serve"]
  /\ UNCHANGED <<user, tests, c2s, s2c>>

\* The connection is left to the caller.
Return_faulty(result, rest) ==
  /\ cpc' = "idle"
  /\ outcome' = [outcome EXCEPT ![cli] = result]
  /\ s2c' = [s2c EXCEPT ![cli] = rest]
  /\ UNCHANGED <<login, timeout, cli, open>>

\* Connect returns, with rest unread.  Its deferred close looks at the variable
\* err, which a login the server rejects does not set.  What a closed socket
\* still had is gone.
Return(result, rest) ==
  LET closes == result \in Failures \ {"rejected"}
  IN /\ cpc' = "idle"
     /\ outcome' = [outcome EXCEPT ![cli] = result]
     /\ open' = IF closes THEN open \ {cli} ELSE open
     /\ s2c' = [s2c EXCEPT ![cli] = IF closes THEN <<>> ELSE rest]
     /\ UNCHANGED <<login, timeout, cli>>

SendLogin ==
  /\ cpc = "send"
  /\ \/ /\ cpc' = "recv"
        /\ c2s' = [c2s EXCEPT ![cli] = Append(@, LoginReq(login[cli]))]
        /\ UNCHANGED <<login, timeout, outcome, cli, open, s2c>>
     \/ /\ srv[cli] = "gone"
        /\ Return("sendErr", <<>>)
        /\ UNCHANGED c2s
  /\ UNCHANGED <<user, srvVars>>

\* Any login response counts as success.
Judge_faulty(p) == IF p.tag # "LoginResp" THEN "notMatch" ELSE "ok"

\* What Connect makes of the first packet it receives.
Judge(p) == IF p.tag # "LoginResp" THEN "notMatch"
            ELSE IF p.status # 0 THEN "rejected" ELSE "ok"

RecvResp ==
  /\ cpc = "recv" /\ s2c[cli] # <<>>
  /\ Return(Judge(Head(s2c[cli])), Tail(s2c[cli]))
  /\ UNCHANGED <<user, srvVars, c2s>>

\* The timeout is not passed on to the receive.
RecvTimeout_faulty == UNCHANGED vars

\* The deadline passes; it is looked at before the socket is.  A timeout of 0
\* sets none.
RecvTimeout ==
  /\ cpc = "recv" /\ timeout # 0
  /\ Return("timeout", <<>>)
  /\ UNCHANGED <<user, srvVars, c2s>>

RecvEOF ==
  /\ cpc = "recv" /\ s2c[cli] = <<>> /\ srv[cli] = "gone"
  /\ Return("eof", <<>>)
  /\ UNCHANGED <<user, srvVars, c2s>>

\* Disconnect closes what Client.conn is now; nothing if it is closed.
Disconnect ==
  /\ cpc = "idle" /\ cli # 0
  /\ open' = open \ {cli}
  /\ s2c' = [s2c EXCEPT ![cli] = <<>>]
  /\ UNCHANGED <<user, login, timeout, outcome, cpc, cli, srvVars, c2s>>

ConnectStep == SendLogin \/ RecvResp \/ RecvTimeout \/ RecvEOF

-----------------------------------------------------------------------------
\* The server's side of attempt a

\* The id of the packet is compared with the server's as it is configured.
Accepts_faulty(p) == p.id = user /\ p.auth = Auth(p.id, Secret)

\* handleLogin: the id as padded in the packet is compared, and hashed again.
Accepts(p) == p.id = Byte8(user) /\ p.auth = Auth(p.id, Secret)

\* Into the socket, or nowhere when the client has closed it.
Send(a, p) == s2c' = [s2c EXCEPT ![a] = IF a \in open THEN Append(@, p) ELSE @]

\* A login of the server's version is answered, accepted or not; a refused
\* one ends the connection after the answer, as a Write that fails does.
ServeLogin(a) ==
  /\ srv[a] = "serve" /\ c2s[a] # <<>>
  /\ Head(c2s[a]).version = Version
  /\ c2s' = [c2s EXCEPT ![a] = Tail(@)]
  /\ Send(a, LoginResp(IF Accepts(Head(c2s[a])) THEN 0 ELSE 21))
  /\ srv' = [srv EXCEPT ![a] = IF Accepts(Head(c2s[a])) THEN @ ELSE "bye"]
  /\ UNCHANGED <<user, cliVars, tests>>

\* serve leaves its loop: another version, a closed peer, N silent tests.
ServeStops(a) ==
  /\ srv[a] = "serve"
  /\ \/ c2s[a] # <<>> /\ Head(c2s[a]).version # Version
     \/ a \notin open
     \/ tests[a] = N
  /\ srv' = [srv EXCEPT ![a] = "bye"]
  /\ c2s' = [c2s EXCEPT ![a] = <<>>]
  /\ UNCHANGED <<user, cliVars, tests, s2c>>

\* Unanswered tests are not counted.
ActiveTest_faulty(a) ==
  /\ srv[a] \in {"serve", "bye"} /\ tests[a] <= N
  /\ Send(a, Test)
  /\ tests' = [tests EXCEPT ![a] = @ + 1]
  /\ UNCHANGED <<user, cliVars, srv, c2s>>

\* The active-test goroutine does not wait for the login.
ActiveTest(a) ==
  /\ srv[a] \in {"serve", "bye"} /\ tests[a] < N
  /\ Send(a, Test)
  /\ tests' = [tests EXCEPT ![a] = @ + 1]
  /\ UNCHANGED <<user, cliVars, srv, c2s>>

\* close(): the exit request, then the socket.
ServeCloses(a) ==
  /\ srv[a] = "bye"
  /\ Send(a, Test)
  /\ srv' = [srv EXCEPT ![a] = "gone"]
  /\ UNCHANGED <<user, cliVars, tests, c2s>>

\* The connection breaks: what is under way may be lost with it.
Break(a) ==
  /\ srv[a] \in {"serve", "bye"}
  /\ srv' = [srv EXCEPT ![a] = "gone"]
  /\ c2s' = [c2s EXCEPT ![a] = <<>>]
  /\ \/ UNCHANGED s2c
     \/ s2c' = [s2c EXCEPT ![a] = <<>>]
  /\ UNCHANGED <<user, cliVars, tests>>

ServerStep(a) == ServeLogin(a) \/ ServeStops(a) \/ ActiveTest(a)
                 \/ ServeCloses(a) \/ Break(a)

\* The caller has no attempt left.
Done == cpc = "idle" /\ cli = MaxTries /\ UNCHANGED vars

Next ==
  \/ \E l \in LoginSet : Dial(l)
  \/ ConnectStep \/ Disconnect
  \/ \E a \in Tries : ServerStep(a)
  \/ Done

\* Connect runs, and its receive ends with a packet, an EOF or, if it has one,
\* the timeout.
\* Nothing is asked of the server.
Spec == Init /\ [][Next]_vars /\ WF_vars(ConnectStep)

-----------------------------------------------------------------------------
\* Properties

Packets == {LoginReq(l) : l \in LoginSet}
Replies == {Test, LoginResp(0), LoginResp(21)}
TypeOK ==
  /\ user \in IdSet /\ login \in [Tries -> LoginSet] /\ timeout \in Timeouts
  /\ outcome \in [Tries -> Failures \cup {"none", "pending", "ok"}]
  /\ cpc \in {"idle", "send", "recv"} /\ cli \in 0..MaxTries
  /\ (cpc # "idle") <=> (cli # 0 /\ outcome[cli] = "pending")
  /\ open \subseteq 1..cli
  /\ srv \in [Tries -> {"none", "serve", "bye", "gone"}]
  /\ tests \in [Tries -> 0..N]
  /\ c2s \in [Tries -> Seq(Packets)] /\ \A a \in Tries : Len(c2s[a]) <= 1
  /\ s2c \in [Tries -> Seq(Replies)]

\* Connect returns nil only for a client that holds the server's id and
\* secret: of all that may arrive in any order on the socket (active tests,
\* exit requests, refusals) nothing else is taken for an accepted login.
OkMeansAccepted ==
  \A a \in Tries : outcome[a] = "ok" =>
    /\ login[a].id.name = user.name /\ login[a].secret = Secret
    /\ login[a].version = Version

\* A Connect that failed leaves no connection behind (the deferred close of
\* client.go:31-37), save one way: a login the server refused (66-68).
OnlyRefusalLeaks ==
  \A a \in open : outcome[a] \in {"pending", "ok", "rejected"}

\* A login is refused for a wrong id, a wrong secret, or an id that does not
\* fill its field of eight bytes.
RefusedForCause ==
  \A a \in Tries : outcome[a] = "rejected" =>
    \/ login[a].id.name # user.name \/ login[a].secret # Secret
    \/ login[a].id.len # 8

\* "AuthenticatorClient = MD5(ClientID + 7 zero bytes + shared secret +
\* timestamp)" (utils.go:37): with the agreed id and secret a login is not
\* refused.  It is, for an id shorter than its field: the client hashes the
\* id as it is, the server as it was padded (login.go:33, examples/server/main.go:36).
AgreedLoginAccepted ==
  \A a \in Tries : outcome[a] = "rejected" =>
    login[a].id # user \/ login[a].secret # Secret

\* A Connect that was given a timeout returns, whatever the server does or
\* leaves undone; without one (connection.go:148) it returns once the server
\* has gone, and may wait for a silent server for ever.
ConnectReturns ==
  \A a \in Tries :
    outcome[a] = "pending" /\ (timeout # 0 \/ srv[a] = "gone")
      ~> outcome[a] # "pending"
=============================================================================
