--------------------------- MODULE HandshakeProofs --------------------------
(***************************************************************************)
(* The safety properties of Handshake for every set of ids, secrets and    *)
(* versions, every N and every number of attempts.                         *)
(***************************************************************************)
EXTENDS Handshake, TLAPS

-----------------------------------------------------------------------------
(* The inductive invariant *)

\* What an accepted and a refused login is.
Good(a) == /\ login[a].id.name = user.name /\ login[a].secret = Secret
           /\ login[a].version = Version
Bad(a) == \/ login[a].id.name # user.name \/ login[a].secret # Secret
          \/ login[a].id.len # 8

\* Attempts not yet made have left no trace, and the login of the attempt
\* under way is not sent twice.
Fresh ==
  /\ \A a \in Tries : a > cli => /\ c2s[a] = << >> /\ s2c[a] = << >>
                                 /\ srv[a] = "none"
  /\ cpc = "send" => c2s[cli] = << >>

\* The server reads the login of its own attempt, and an answer under way
\* tells what that login was.
Requests == \A a \in Tries : \A i \in 1..Len(c2s[a]) :
              c2s[a][i] = LoginReq(login[a])
Fits(a, p) == p.tag = "LoginResp" => /\ p.status = 0 => Good(a)
                                     /\ p.status # 0 => Bad(a)
Answers == \A a \in Tries : \A i \in 1..Len(s2c[a]) : Fits(a, s2c[a][i])

Judged == OkMeansAccepted /\ RefusedForCause

IInv == TypeOK /\ Fresh /\ Requests /\ Answers /\ Judged /\ OnlyRefusalLeaks

-----------------------------------------------------------------------------
(* Lemmas *)

LEMMA Kinds ==
  /\ Test \in Replies /\ LoginResp(0) \in Replies /\ LoginResp(21) \in Replies
  /\ Test.tag = "ActiveTestReq"
  /\ \A st : LoginResp(st).tag = "LoginResp" /\ LoginResp(st).status = st
BY DEF Test, LoginResp, Replies

\* handleLogin accepts just the ids of eight bytes of the right name with the
\* right secret.
LEMMA AcceptsWhat ==
  ASSUME NEW l \in LoginSet, user \in IdSet
  PROVE  /\ LoginReq(l).version = l.version
         /\ Accepts(LoginReq(l)) <=> /\ l.id.name = user.name
                                     /\ l.secret = Secret /\ l.id.len = 8
<1>1. /\ l.id \in IdSet
      /\ LoginReq(l).id = [l.id EXCEPT !.len = 8]
      /\ LoginReq(l).auth = <<l.id, l.secret>>
      /\ LoginReq(l).version = l.version
  BY DEF LoginSet, LoginReq, Byte8, Auth
<1>2. Accepts(LoginReq(l)) <=>
        /\ [l.id EXCEPT !.len = 8] = [user EXCEPT !.len = 8]
        /\ l.id = [l.id EXCEPT !.len = 8] /\ l.secret = Secret
  BY <1>1 DEF Accepts, Byte8, Auth
<1>3. \A i, j \in IdSet :
        /\ [i EXCEPT !.len = 8] = [j EXCEPT !.len = 8] <=> i.name = j.name
        /\ i = [i EXCEPT !.len = 8] <=> i.len = 8
  BY DEF IdSet
<1>4. QED
  BY <1>1, <1>2, <1>3

\* A queue that a packet is appended to, and one that its first is taken from.
LEMMA Grows ==
  ASSUME NEW R, NEW q \in Seq(R), NEW p \in R
  PROVE  /\ Append(q, p) \in Seq(R) /\ Len(Append(q, p)) = Len(q) + 1
         /\ \A i \in 1..(Len(q) + 1) :
              Append(q, p)[i] = IF i <= Len(q) THEN q[i] ELSE p
OBVIOUS

LEMMA Shrinks ==
  ASSUME NEW R, NEW q \in Seq(R), q # << >>
  PROVE  /\ Tail(q) \in Seq(R) /\ Len(Tail(q)) = Len(q) - 1 /\ Len(q) > 0
         /\ Head(q) = q[1] /\ Head(q) \in R
         /\ \A i \in 1..Len(Tail(q)) : Tail(q)[i] = q[i + 1]
OBVIOUS

\* A change of one queue of the server's that leaves Answers true.
LEMMA AnswersKept ==
  ASSUME TypeOK, Answers, NEW a \in Tries, NEW q \in Seq(Replies),
         s2c' = [s2c EXCEPT ![a] = q],
         \A i \in 1..Len(q) : Fits(a, q[i]),
         UNCHANGED <<user, login>>
  PROVE  Answers' /\ s2c' \in [Tries -> Seq(Replies)]
         /\ \A b \in Tries \ {a} : s2c'[b] = s2c[b]
<1>1. /\ s2c \in [Tries -> Seq(Replies)] /\ s2c' \in [Tries -> Seq(Replies)]
      /\ s2c'[a] = q /\ \A b \in Tries \ {a} : s2c'[b] = s2c[b]
  BY DEF TypeOK
<1>2. ASSUME NEW b \in Tries, NEW p
      PROVE  Fits(b, p)' <=> Fits(b, p)
  BY DEF Fits, Good, Bad
<1>3. Answers'
  BY <1>1, <1>2, Zenon DEF Answers, Fits, Good, Bad
<1>4. QED
  BY <1>1, <1>3

LEMMA SendKeeps ==
  ASSUME TypeOK, Answers, NEW a \in Tries, NEW p \in Replies, Fits(a, p),
         Send(a, p), UNCHANGED <<user, login>>
  PROVE  Answers' /\ s2c' \in [Tries -> Seq(Replies)]
         /\ \A b \in Tries \ {a} : s2c'[b] = s2c[b]
<1> DEFINE q == IF a \in open THEN Append(s2c[a], p) ELSE s2c[a]
<1>1. s2c[a] \in Seq(Replies) /\ \A i \in 1..Len(s2c[a]) : Fits(a, s2c[a][i])
  BY DEF TypeOK, Answers
<1>2. q \in Seq(Replies) /\ \A i \in 1..Len(q) : Fits(a, q[i])
  <2>1. CASE a \in open
    <3>1. q = Append(s2c[a], p)
      BY <2>1
    <3> HIDE DEF q
    <3>2. /\ q \in Seq(Replies) /\ Len(q) = Len(s2c[a]) + 1
          /\ \A i \in 1..(Len(s2c[a]) + 1) :
               q[i] = IF i <= Len(s2c[a]) THEN s2c[a][i] ELSE p
      BY <1>1, <3>1, Grows
    <3>3. QED
      BY <1>1, <3>2
  <2>2. CASE a \notin open
    BY <1>1, <2>2
  <2>3. QED
    BY <2>1, <2>2
<1>3. s2c' = [s2c EXCEPT ![a] = q]
  BY DEF Send
<1> HIDE DEF q
<1>4. QED
  BY <1>2, <1>3, AnswersKept, Zenon

LEMMA InvInit == Init => IInv
<1> SUFFICES ASSUME Init PROVE IInv
  OBVIOUS
<1>1. user \in IdSet /\ (CHOOSE l \in LoginSet : TRUE) \in LoginSet
  <2>1. user \in IdSet
    BY HandshakeAssumption DEF Init, IdSet
  <2>2. [id |-> user, secret |-> Secret, version |-> Version] \in LoginSet
    BY <2>1, HandshakeAssumption DEF LoginSet
  <2>3. QED
    BY <2>1, <2>2, Zenon
<1>2. TypeOK
  BY <1>1, HandshakeAssumption DEF Init, TypeOK, Timeouts
<1>3. Fresh /\ Requests /\ Answers
  BY DEF Init, Fresh, Requests, Answers
<1>4. Judged /\ OnlyRefusalLeaks
  BY DEF Init, Judged, OkMeansAccepted, RefusedForCause, OnlyRefusalLeaks
<1>5. QED
  BY <1>2, <1>3, <1>4 DEF IInv

-----------------------------------------------------------------------------
(* The client's steps *)

LEMMA DialStep ==
  ASSUME IInv, NEW l \in LoginSet, Dial(l)
  PROVE  IInv'
<1> USE DEF IInv
<1> DEFINE n == cli + 1
<1>1. /\ cpc = "idle" /\ cpc' = "send" /\ cli' = n /\ n \in Tries /\ n > cli
      /\ login' = [login EXCEPT ![n] = l]
      /\ outcome' = [outcome EXCEPT ![n] = "pending"]
      /\ open' = open \cup {n}
      /\ srv' = [srv EXCEPT ![n] = "serve"]
      /\ timeout' \in Timeouts /\ UNCHANGED <<user, tests, c2s, s2c>>
      /\ cli \in Nat
  BY HandshakeAssumption DEF Dial, Tries, TypeOK
<1>2. c2s[n] = << >> /\ s2c[n] = << >>
  BY <1>1 DEF Fresh
<1>3. /\ outcome'[n] = "pending" /\ \A a \in Tries \ {n} : outcome'[a] = outcome[a]
      /\ login'[n] = l /\ \A a \in Tries \ {n} : login'[a] = login[a]
      /\ \A a \in Tries \ {n} : srv'[a] = srv[a]
  BY <1>1 DEF TypeOK
<1> HIDE DEF n
<1>4. TypeOK'
  <2>1. /\ login' \in [Tries -> LoginSet]
        /\ outcome' \in [Tries -> Failures \cup {"none", "pending", "ok"}]
        /\ srv' \in [Tries -> {"none", "serve", "bye", "gone"}]
    BY <1>1 DEF TypeOK
  <2>2. open' \subseteq 1..cli' /\ cli' \in 0..MaxTries /\ cli' # 0
    BY <1>1, HandshakeAssumption DEF TypeOK, Tries, n
  <2>3. QED
    BY <1>1, <1>3, <2>1, <2>2 DEF TypeOK
<1>5. Fresh'
  <2>1. ASSUME NEW a \in Tries, a > n
        PROVE  c2s[a] = << >> /\ s2c[a] = << >> /\ srv'[a] = "none"
    <3>1. a > cli /\ a # n
      BY <1>1, <2>1, HandshakeAssumption DEF Tries, n
    <3>2. QED
      BY <1>3, <3>1 DEF Fresh
  <2>2. QED
    BY <1>1, <1>2, <2>1 DEF Fresh
<1>6. Requests'
  BY <1>1, <1>2, <1>3 DEF Requests
<1>7. Answers'
  <2> SUFFICES ASSUME NEW a \in Tries, NEW i \in 1..Len(s2c[a])
               PROVE  Fits(a, s2c[a][i])'
    BY <1>1 DEF Answers
  <2>1. a # n
    BY <1>2
  <2>2. Fits(a, s2c[a][i])
    BY DEF Answers
  <2>3. QED
    BY <1>1, <1>3, <2>1, <2>2 DEF Fits, Good, Bad
<1>8. Judged'
  BY <1>1, <1>3 DEF Judged, OkMeansAccepted, RefusedForCause
<1>9. OnlyRefusalLeaks'
  BY <1>1, <1>3, HandshakeAssumption DEF OnlyRefusalLeaks, TypeOK, Tries
<1>10. QED
  BY <1>4, <1>5, <1>6, <1>7, <1>8, <1>9

\* Connect returns: what it returns of the answer is what the answer says.
LEMMA ReturnStep ==
  ASSUME IInv, cpc # "idle", NEW result \in Failures \cup {"ok"},
         NEW rest \in Seq(Replies), Return(result, rest),
         UNCHANGED <<user, srvVars, c2s>>,
         \A i \in 1..Len(rest) : Fits(cli, rest[i]),
         result = "ok" => Good(cli), result = "rejected" => Bad(cli)
  PROVE  IInv'
<1> USE DEF IInv
<1> DEFINE closes == result \in Failures \ {"rejected"}
           q == IF closes THEN << >> ELSE rest
<1>1. /\ cpc' = "idle" /\ outcome' = [outcome EXCEPT ![cli] = result]
      /\ open' = IF closes THEN open \ {cli} ELSE open
      /\ s2c' = [s2c EXCEPT ![cli] = q]
      /\ UNCHANGED <<user, login, timeout, cli, srv, tests, c2s>>
  BY DEF Return, srvVars
<1>2. cli \in Tries /\ cli \in Nat /\ outcome[cli] = "pending"
  BY HandshakeAssumption DEF TypeOK, Tries
<1>3. q \in Seq(Replies) /\ \A i \in 1..Len(q) : Fits(cli, q[i])
  OBVIOUS
<1>4. Answers' /\ s2c' \in [Tries -> Seq(Replies)]
      /\ \A b \in Tries \ {cli} : s2c'[b] = s2c[b]
  <2> HIDE DEF q
  <2>1. QED
    BY <1>1, <1>2, <1>3, AnswersKept, Zenon
<1> HIDE DEF q
<1>5. outcome'[cli] = result /\ \A a \in Tries \ {cli} : outcome'[a] = outcome[a]
  BY <1>1, <1>2 DEF TypeOK
<1>6. result # "pending"
  BY DEF Failures
<1>7. TypeOK'
  <2>1. /\ outcome' \in [Tries -> Failures \cup {"none", "pending", "ok"}]
        /\ open' \subseteq 1..cli
    BY <1>1, <1>2 DEF TypeOK
  <2>2. QED
    BY <1>1, <1>4, <1>5, <1>6, <2>1 DEF TypeOK
<1>8. Fresh'
  BY <1>1, <1>2, <1>4 DEF Fresh
<1>9. Requests'
  BY <1>1 DEF Requests
<1>10. Judged'
  BY <1>1, <1>5 DEF Judged, OkMeansAccepted, RefusedForCause, Good, Bad
<1>11. OnlyRefusalLeaks'
  BY <1>1, <1>5 DEF OnlyRefusalLeaks, TypeOK, Tries, Failures
<1>12. QED
  BY <1>4, <1>7, <1>8, <1>9, <1>10, <1>11

LEMMA SendLoginStep ==
  ASSUME IInv, SendLogin
  PROVE  IInv'
<1> USE DEF IInv
<1>1. cpc = "send" /\ UNCHANGED <<user, srvVars>> /\ cli \in Tries /\ cli \in Nat
  BY HandshakeAssumption DEF SendLogin, TypeOK, Tries
<1>2. CASE Return("sendErr", << >>) /\ UNCHANGED c2s
  <2>1. << >> \in Seq(Replies) /\ "sendErr" \in Failures \cup {"ok"}
        /\ "sendErr" # "ok" /\ "sendErr" # "rejected" /\ Len(<< >>) = 0
    BY DEF Failures
  <2>2. \A i \in 1..Len(<< >>) : Fits(cli, << >>[i])
    OBVIOUS
  <2>3. UNCHANGED <<user, srvVars, c2s>> /\ cpc # "idle"
    BY <1>1, <1>2
  <2>4. QED
    BY <1>2, <2>1, <2>2, <2>3, ReturnStep, Zenon DEF IInv
<1>3. CASE /\ cpc' = "recv"
           /\ c2s' = [c2s EXCEPT ![cli] = Append(@, LoginReq(login[cli]))]
           /\ UNCHANGED <<login, timeout, outcome, cli, open, s2c>>
  <2>1. c2s[cli] = << >> /\ LoginReq(login[cli]) \in Packets
    BY <1>1 DEF Fresh, TypeOK, Packets
  <2>2. /\ c2s' = [c2s EXCEPT ![cli] = << LoginReq(login[cli]) >>]
        /\ c2s' \in [Tries -> Seq(Packets)]
        /\ c2s'[cli] = << LoginReq(login[cli]) >>
        /\ \A a \in Tries \ {cli} : c2s'[a] = c2s[a]
    BY <1>1, <1>3, <2>1 DEF TypeOK
  <2>3. \A a \in Tries : Len(c2s'[a]) <= 1
    BY <2>2 DEF TypeOK
  <2>4. TypeOK'
    BY <1>1, <1>3, <2>2, <2>3 DEF TypeOK, srvVars
  <2>5. Fresh'
    BY <1>1, <1>3, <2>2 DEF Fresh, srvVars
  <2>6. Requests'
    BY <1>3, <2>2 DEF Requests
  <2>7. Answers' /\ Judged' /\ OnlyRefusalLeaks'
    BY <1>1, <1>3 DEF Answers, Fits, Good, Bad, Judged, OkMeansAccepted,
                      RefusedForCause, OnlyRefusalLeaks
  <2>8. QED
    BY <2>4, <2>5, <2>6, <2>7
<1>4. QED
  BY <1>2, <1>3, Zenon DEF SendLogin

LEMMA RecvSteps ==
  ASSUME IInv, RecvResp \/ RecvTimeout \/ RecvEOF
  PROVE  IInv'
<1> USE DEF IInv
<1>1. /\ cpc # "idle" /\ UNCHANGED <<user, srvVars, c2s>> /\ cli \in Tries
  BY HandshakeAssumption DEF RecvResp, RecvTimeout, RecvEOF, TypeOK, Tries
<1>2. CASE RecvTimeout \/ RecvEOF
  <2>1. PICK result \in {"timeout", "eof"} : Return(result, << >>)
    BY <1>2 DEF RecvTimeout, RecvEOF
  <2>2. /\ << >> \in Seq(Replies) /\ result \in Failures \cup {"ok"}
        /\ result # "ok" /\ result # "rejected"
        /\ \A i \in 1..Len(<< >>) : Fits(cli, << >>[i])
    BY DEF Failures
  <2>3. QED
    BY <1>1, <2>1, <2>2, ReturnStep, Zenon DEF IInv
<1>3. CASE RecvResp
  <2> DEFINE q == s2c[cli]
  <2>1. q \in Seq(Replies) /\ q # << >> /\ \A i \in 1..Len(q) : Fits(cli, q[i])
    BY <1>1, <1>3 DEF TypeOK, Answers, RecvResp
  <2>2. Return(Judge(Head(q)), Tail(q))
    BY <1>3 DEF RecvResp
  <2> HIDE DEF q
  <2>3. /\ Tail(q) \in Seq(Replies) /\ Fits(cli, Head(q)) /\ Head(q) \in Replies
        /\ \A i \in 1..Len(Tail(q)) : Fits(cli, Tail(q)[i])
    BY <2>1, Shrinks
  <2>4. /\ Judge(Head(q)) \in Failures \cup {"ok"}
        /\ Judge(Head(q)) = "ok" => Good(cli)
        /\ Judge(Head(q)) = "rejected" => Bad(cli)
    BY <2>3 DEF Judge, Failures, Fits
  <2>5. QED
    BY <1>1, <2>2, <2>3, <2>4, ReturnStep, Zenon DEF IInv
<1>4. QED
  BY <1>2, <1>3

LEMMA DisconnectStep ==
  ASSUME IInv, Disconnect
  PROVE  IInv'
<1> USE DEF IInv
<1>1. /\ cli \in Tries /\ open' = open \ {cli}
      /\ s2c' = [s2c EXCEPT ![cli] = << >>]
      /\ UNCHANGED <<user, login, timeout, outcome, cpc, cli, srv, tests, c2s>>
  BY HandshakeAssumption DEF Disconnect, TypeOK, Tries, srvVars
<1>2. << >> \in Seq(Replies) /\ \A i \in 1..Len(<< >>) : Fits(cli, << >>[i])
  OBVIOUS
<1>3. Answers' /\ s2c' \in [Tries -> Seq(Replies)]
      /\ \A b \in Tries \ {cli} : s2c'[b] = s2c[b]
  BY <1>1, <1>2, AnswersKept, Zenon
<1>4. TypeOK'
  BY <1>1, <1>3 DEF TypeOK
<1>5. Fresh'
  BY <1>1, <1>3 DEF Fresh, TypeOK
<1>6. Requests' /\ Judged' /\ OnlyRefusalLeaks'
  BY <1>1 DEF Requests, Judged, OkMeansAccepted, RefusedForCause,
              OnlyRefusalLeaks
<1>7. QED
  BY <1>3, <1>4, <1>5, <1>6

-----------------------------------------------------------------------------
(* The server's steps *)

\* Nothing of the client changes, and the queue of requests only shrinks.
LEMMA ServerKeeps ==
  ASSUME IInv, NEW a \in Tries, a <= cli, NEW st \in {"serve", "bye", "gone"},
         NEW q \in Seq(Packets), Len(q) <= Len(c2s[a]),
         \A i \in 1..Len(q) : q[i] = LoginReq(login[a]),
         c2s' = [c2s EXCEPT ![a] = q], srv' = [srv EXCEPT ![a] = st],
         tests' \in [Tries -> 0..N], UNCHANGED <<user, cliVars>>,
         Answers', s2c' \in [Tries -> Seq(Replies)],
         \A b \in Tries \ {a} : s2c'[b] = s2c[b]
  PROVE  IInv'
<1> USE DEF IInv
<1>1. UNCHANGED <<user, login, timeout, outcome, cpc, cli, open>> /\ cli \in Nat
  BY DEF cliVars, TypeOK
<1>2. /\ c2s' \in [Tries -> Seq(Packets)] /\ c2s'[a] = q
      /\ \A b \in Tries \ {a} : c2s'[b] = c2s[b]
  BY DEF TypeOK
<1>3. /\ srv' \in [Tries -> {"none", "serve", "bye", "gone"}]
      /\ \A b \in Tries \ {a} : srv'[b] = srv[b]
  BY DEF TypeOK
<1>4. \A b \in Tries : Len(c2s'[b]) <= 1 /\ (c2s[b] = << >> => c2s'[b] = << >>)
  BY <1>2 DEF TypeOK
<1>5. TypeOK'
  BY <1>1, <1>2, <1>3, <1>4 DEF TypeOK
<1>6. Fresh'
  <2>1. cpc = "send" => cli \in Tries
    BY HandshakeAssumption DEF TypeOK, Tries
  <2>2. QED
    BY <1>1, <1>3, <1>4, <2>1 DEF Fresh, Tries
<1>7. Requests'
  BY <1>1, <1>2 DEF Requests
<1>8. Judged' /\ OnlyRefusalLeaks'
  BY <1>1 DEF Judged, OkMeansAccepted, RefusedForCause, OnlyRefusalLeaks
<1>9. QED
  BY <1>5, <1>6, <1>7, <1>8

LEMMA ServerSteps ==
  ASSUME IInv, NEW a \in Tries, ServerStep(a)
  PROVE  IInv'
<1> USE DEF IInv
<1> DEFINE q == c2s[a]
<1>1. /\ q \in Seq(Packets) /\ \A i \in 1..Len(q) : q[i] = LoginReq(login[a])
      /\ c2s = [c2s EXCEPT ![a] = q] /\ srv = [srv EXCEPT ![a] = srv[a]]
      /\ tests \in [Tries -> 0..N] /\ s2c \in [Tries -> Seq(Replies)]
      /\ login[a] \in LoginSet /\ user \in IdSet
  BY DEF TypeOK, Requests
<1>2. /\ srv[a] \in {"serve", "bye"} /\ a <= cli /\ UNCHANGED <<user, cliVars>>
      /\ UNCHANGED login
  BY DEF ServerStep, ServeLogin, ServeStops, ActiveTest, ServeCloses, Break,
         Fresh, Tries, TypeOK, cliVars
<1>3. << >> \in Seq(Packets) /\ Len(<< >>) <= Len(q)
      /\ \A i \in 1..Len(<< >>) : << >>[i] = LoginReq(login[a])
  BY <1>1
<1>4. Fits(a, Test) /\ Len(q) <= Len(c2s[a])
  BY <1>1, Kinds DEF Fits
<1>5. CASE ServeLogin(a)
  <2> DEFINE ok == Accepts(Head(q))
             st == IF ok THEN srv[a] ELSE "bye"
             p == LoginResp(IF ok THEN 0 ELSE 21)
  <2>1. q # << >> /\ Head(q).version = Version
    BY <1>5 DEF ServeLogin
  <2>2. /\ c2s' = [c2s EXCEPT ![a] = Tail(q)] /\ Send(a, p)
        /\ srv' = [srv EXCEPT ![a] = st] /\ tests' = tests
    BY <1>5 DEF ServeLogin
  <2> HIDE DEF q
  <2>3. /\ Tail(q) \in Seq(Packets) /\ Len(Tail(q)) <= Len(q)
        /\ \A i \in 1..Len(Tail(q)) : Tail(q)[i] = LoginReq(login[a])
        /\ Head(q) = LoginReq(login[a])
    <3>1. /\ Tail(q) \in Seq(Packets) /\ Len(Tail(q)) = Len(q) - 1
          /\ Len(q) > 0 /\ Head(q) = q[1] /\ Len(q) \in Nat
          /\ \A i \in 1..Len(Tail(q)) : Tail(q)[i] = q[i + 1]
      BY <1>1, <2>1, Shrinks
    <3> DEFINE r == Tail(q)
    <3> HIDE DEF r
    <3>2. ASSUME NEW i \in 1..Len(r)
          PROVE  r[i] = LoginReq(login[a])
      <4>1. i + 1 \in 1..Len(q) /\ r[i] = q[i + 1]
        BY <3>1 DEF r
      <4>2. QED
        BY <1>1, <4>1
    <3>3. 1 \in 1..Len(q) /\ Len(r) <= Len(q)
      BY <3>1 DEF r
    <3>4. QED
      BY <1>1, <3>1, <3>2, <3>3 DEF r
  <2>4. /\ login[a].version = Version
        /\ ok <=> /\ login[a].id.name = user.name
                  /\ login[a].secret = Secret /\ login[a].id.len = 8
    BY <1>1, <2>1, <2>3, AcceptsWhat
  <2>5. p \in Replies /\ Fits(a, p)
    BY <2>4, Kinds DEF Fits, Good, Bad
  <2>6. st \in {"serve", "bye", "gone"}
    BY <1>2
  <2> HIDE DEF ok, st, p
  <2>7. Answers' /\ s2c' \in [Tries -> Seq(Replies)]
        /\ \A b \in Tries \ {a} : s2c'[b] = s2c[b]
    BY <1>2, <2>2, <2>5, SendKeeps, Zenon DEF IInv
  <2>8. QED
    BY <1>1, <1>2, <2>2, <2>3, <2>6, <2>7, ServerKeeps DEF q
<1>6. CASE ServeStops(a)
  <2>1. /\ srv' = [srv EXCEPT ![a] = "bye"] /\ c2s' = [c2s EXCEPT ![a] = << >>]
        /\ UNCHANGED <<tests, s2c>>
    BY <1>6 DEF ServeStops
  <2>2. Answers'
    BY <1>2, <2>1 DEF Answers, Fits, Good, Bad
  <2>3. QED
    BY <1>1, <1>2, <1>3, <2>1, <2>2, ServerKeeps
<1>7. CASE ActiveTest(a)
  <2>1. /\ Send(a, Test) /\ tests' = [tests EXCEPT ![a] = @ + 1] /\ tests[a] < N
        /\ srv' = srv /\ c2s' = c2s
    BY <1>7 DEF ActiveTest
  <2>2. tests' \in [Tries -> 0..N]
    BY <1>1, <2>1, HandshakeAssumption
  <2>3. Answers' /\ s2c' \in [Tries -> Seq(Replies)]
        /\ \A b \in Tries \ {a} : s2c'[b] = s2c[b]
    BY <1>2, <1>4, <2>1, Kinds, SendKeeps, Zenon DEF IInv
  <2>4. c2s' = [c2s EXCEPT ![a] = q] /\ srv' = [srv EXCEPT ![a] = srv[a]]
        /\ srv[a] \in {"serve", "bye", "gone"}
    BY <1>1, <1>2, <2>1
  <2> HIDE DEF q
  <2>5. QED
    BY <1>1, <1>2, <1>4, <2>2, <2>3, <2>4, ServerKeeps
<1>8. CASE ServeCloses(a)
  <2>1. /\ Send(a, Test) /\ srv' = [srv EXCEPT ![a] = "gone"]
        /\ tests' = tests /\ c2s' = c2s
    BY <1>8 DEF ServeCloses
  <2>2. Answers' /\ s2c' \in [Tries -> Seq(Replies)]
        /\ \A b \in Tries \ {a} : s2c'[b] = s2c[b]
    BY <1>2, <1>4, <2>1, Kinds, SendKeeps, Zenon DEF IInv
  <2>3. c2s' = [c2s EXCEPT ![a] = q] /\ tests' \in [Tries -> 0..N]
    BY <1>1, <2>1
  <2> HIDE DEF q
  <2>4. QED
    BY <1>1, <1>2, <1>4, <2>1, <2>2, <2>3, ServerKeeps
<1>9. CASE Break(a)
  <2>1. /\ srv' = [srv EXCEPT ![a] = "gone"] /\ c2s' = [c2s EXCEPT ![a] = << >>]
        /\ tests' = tests
        /\ s2c' = [s2c EXCEPT ![a] = s2c[a]] \/ s2c' = [s2c EXCEPT ![a] = << >>]
    BY <1>1, <1>9 DEF Break
  <2>2. /\ s2c[a] \in Seq(Replies) /\ << >> \in Seq(Replies)
        /\ \A i \in 1..Len(s2c[a]) : Fits(a, s2c[a][i])
        /\ \A i \in 1..Len(<< >>) : Fits(a, << >>[i])
    BY <1>1 DEF Answers
  <2>3. Answers' /\ s2c' \in [Tries -> Seq(Replies)]
        /\ \A b \in Tries \ {a} : s2c'[b] = s2c[b]
    BY <1>2, <2>1, <2>2, AnswersKept, Zenon DEF IInv
  <2>4. QED
    BY <1>1, <1>2, <1>3, <2>1, <2>3, ServerKeeps
<1>10. QED
  BY <1>5, <1>6, <1>7, <1>8, <1>9, Zenon DEF ServerStep

LEMMA InvStep == IInv /\ [Next]_vars => IInv'
<1> SUFFICES ASSUME IInv, [Next]_vars
             PROVE  IInv'
  OBVIOUS
<1>1. CASE \E l \in LoginSet : Dial(l)
  BY <1>1, DialStep
<1>2. CASE ConnectStep \/ Disconnect
  BY <1>2, SendLoginStep, RecvSteps, DisconnectStep, Zenon DEF ConnectStep
<1>3. CASE \E a \in Tries : ServerStep(a)
  BY <1>3, ServerSteps
<1>4. CASE Done \/ UNCHANGED vars
  <2>1. UNCHANGED <<user, login, timeout, outcome, cpc, cli, open, srv, tests,
                  c2s, s2c>>
    BY <1>4, Zenon DEF Done, vars, cliVars, srvVars
  <2>2. QED
    BY <2>1, Zenon DEF IInv, TypeOK, Fresh, Requests, Answers, Fits, Good, Bad,
       Judged, OkMeansAccepted, RefusedForCause, OnlyRefusalLeaks
<1>5. QED
  BY <1>1, <1>2, <1>3, <1>4, Zenon DEF Next

-----------------------------------------------------------------------------
(* The theorems *)

\* The inductive invariant of the login: the server judges the login of its
\* own attempt, every answer under way tells what that login was, and attempts
\* not yet made have left no trace (client.go:24-71, main.go:19-54).
THEOREM Invariance == Spec => []IInv
BY InvInit, InvStep, PTL DEF Spec

\* The variables of Handshake keep their types, and Connect is under way
\* exactly while its attempt is pending (client.go:24-71).
THEOREM TypeCorrect == Spec => []TypeOK
<1>1. IInv => TypeOK
  BY DEF IInv
<1>2. QED
  BY <1>1, Invariance, PTL

\* Whatever arrives before, between or instead of the answer, Connect returns
\* nil only for the server's id and secret (client.go:55-71, main.go:19-38).
THEOREM SuccessIsEarned == Spec => []OkMeansAccepted
<1>1. IInv => OkMeansAccepted
  BY DEF IInv, Judged
<1>2. QED
  BY <1>1, Invariance, PTL

\* A refusal has one of the three causes (login.go:33-39, main.go:30-38).
THEOREM RefusalHasCause == Spec => []RefusedForCause
<1>1. IInv => RefusedForCause
  BY DEF IInv, Judged
<1>2. QED
  BY <1>1, Invariance, PTL

\* Of the failures of Connect only a refusal leaves the socket and the
\* generators behind, over any number of attempts (client.go:31-37, 66-68).
THEOREM LeakNeedsRefusal == Spec => []OnlyRefusalLeaks
<1>1. IInv => OnlyRefusalLeaks
  BY DEF IInv
<1>2. QED
  BY <1>1, Invariance, PTL
=============================================================================
