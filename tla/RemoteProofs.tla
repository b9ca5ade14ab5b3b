---------------------------- MODULE RemoteProofs ----------------------------
(***************************************************************************)
(* Proofs about Remote, for any number of senders, peers, transports and   *)
(* moves.                                                                  *)
(***************************************************************************)
EXTENDS Remote, TLAPS

\* The inductive invariant.
IInv ==
    /\ TypeOK /\ SenderInv /\ TransportInv /\ AckInv
    /\ NilMeansReached /\ StoppedIsClosed /\ PanicOnlyAtStop

\* A sender's Tell in progress at the points where it uses its locals.
LEMMA SenderLocals ==
    ASSUME TypeOK, SenderInv, NEW s \in Senders
    PROVE  /\ pc[s] # "idle" => ret[s] = "none" /\ calls[s] \in Nat
           /\ pc[s] \in {"conn", "invoke", "wait"} => addr[s] \in Addrs
           /\ pc[s] \in {"transport", "conn", "invoke", "wait"} =>
                gen[s] \in 1 .. made /\ gen[s] \in Gens
  <1>1. calls[s] \in Nat /\ gen[s] \in 0 .. made /\ made \in 0 .. MaxEnabled
    BY DEF TypeOK
  <1>2. gen[s] # 0 => gen[s] \in 1 .. made /\ gen[s] \in Gens
    BY <1>1, RemoteAssumption DEF Gens
  <1> QED BY <1>1, <1>2 DEF SenderInv

LEMMA CallFields ==
    ASSUME NEW c \in Calls
    PROVE  /\ c.from \in Senders /\ c.n \in Nat /\ c.to \in Addrs
           /\ \A at \in {"sent", "found", "ok", "refused"} :
                /\ [c EXCEPT !.at = at] \in Calls
                /\ [c EXCEPT !.at = at].at = at
                /\ [c EXCEPT !.at = at].from = c.from
                /\ [c EXCEPT !.at = at].n = c.n
  BY DEF Calls

-----------------------------------------------------------------------------
(* Type correctness *)

LEMMA TypeStep == TypeOK /\ SenderInv /\ [Next]_vars => TypeOK'
  <1> SUFFICES ASSUME TypeOK, SenderInv, [Next]_vars PROVE TypeOK'
    OBVIOUS
  <1> USE RemoteAssumption DEF TypeOK, Goto, Return, sys, world, past,
                               AdminUnchanged
  <1>1. ASSUME EnableRemote PROVE TypeOK'
    <2>1. /\ made' = made + 1 /\ remote' = made + 1 /\ made < MaxEnabled
          /\ admin' = admin /\ admin = "idle"
      BY <1>1 DEF EnableRemote
    <2>2. /\ remote' \in 0 .. made' /\ made' \in 0 .. MaxEnabled
          /\ isNil' \subseteq 1 .. made'
      BY <1>1, <2>1 DEF EnableRemote
    <2>3. gen' \in [Senders -> 0 .. made']
      <3>1. \A s \in Senders : gen[s] \in 0 .. made'
        BY <2>1
      <3> QED BY <1>1, <3>1 DEF EnableRemote
    <2> QED BY <1>1, <2>1, <2>2, <2>3 DEF EnableRemote
  <1>2. ASSUME StopBegin PROVE TypeOK'
    BY <1>2 DEF StopBegin
  <1>3. ASSUME StopConns PROVE TypeOK'
    <2>1. NoConns \in [Addrs -> Tells \cup {NoConn}]
      BY DEF NoConns
    <2> QED BY <1>3, <2>1 DEF StopConns, CloseConns, Gens
  <1>4. ASSUME StopClear PROVE TypeOK'
    BY <1>4 DEF StopClear
  <1>5. ASSUME NEW a \in Addrs \cup {Nowhere}, SetLocation(a) PROVE TypeOK'
    BY <1>5 DEF SetLocation, Moved
  <1>6. ASSUME NEW a \in Addrs \cup {Here, Nowhere}, Move(a) PROVE TypeOK'
    BY <1>6 DEF Move, Moved
  <1>7. ASSUME NEW s \in Senders, Tell(s) PROVE TypeOK'
    <2>1. /\ calls' \in [Senders -> Nat] /\ reached' \subseteq Tells
          /\ ret' \in [Senders -> {"none", "nil", "error", "panic"}]
      BY <1>7 DEF Tell, DeliverHere, Tells
    <2>2. pc' \in [Senders -> {"idle", "push", "locate", "enabled",
                              "transport", "conn", "invoke", "wait"}]
      BY <1>7 DEF Tell, DeliverHere
    <2> QED BY <1>7, <2>1, <2>2 DEF Tell
  <1>8. ASSUME NEW s \in Senders, PushReturns(s) PROVE TypeOK'
    BY <1>8 DEF PushReturns
  <1>9. ASSUME NEW s \in Senders, Locate(s) PROVE TypeOK'
    BY <1>9 DEF Locate
  <1>10. ASSUME NEW s \in Senders, Enabled(s) PROVE TypeOK'
    BY <1>10 DEF Enabled, CheckEnabled
  <1>11. ASSUME NEW s \in Senders, Transport(s) PROVE TypeOK'
    <2>1. Id(s) \in Tells
      BY DEF Id, Tells
    <2>2. panicked' \subseteq Tells
      BY <1>11, <2>1 DEF Transport, Panic
    <2>3. /\ pc' \in [Senders -> {"idle", "push", "locate", "enabled",
                                  "transport", "conn", "invoke", "wait"}]
          /\ ret' \in [Senders -> {"none", "nil", "error", "panic"}]
          /\ addr' \in [Senders -> Addrs \cup {Nowhere}]
          /\ conn' \in [Senders -> Tells \cup {NoConn}]
          /\ gen' \in [Senders -> 0 .. made]
      BY <1>11 DEF Transport, Panic
    <2> QED BY <1>11, <2>2, <2>3 DEF Transport
  <1>12. ASSUME NEW s \in Senders, Conn(s) PROVE TypeOK'
    <2>1. addr[s] \in Addrs /\ gen[s] \in Gens
      BY <1>12, SenderLocals DEF Conn
    <2>2. Id(s) \in Tells /\ table[gen[s]] \in [Addrs -> Tells \cup {NoConn}]
      BY <2>1 DEF Id, Tells
    <2>3. /\ open' \subseteq Tells /\ panicked' \subseteq Tells
          /\ conn' \in [Senders -> Tells \cup {NoConn}]
      BY <1>12, <2>1, <2>2 DEF Conn, Panic
    <2>4. table' \in [Gens -> [Addrs -> Tells \cup {NoConn}]]
      <3>1. \/ table' = table
            \/ table' = [table EXCEPT ![gen[s]][addr[s]] = Id(s)]
        BY <1>12 DEF Conn
      <3> QED BY <2>1, <2>2, <3>1
    <2>5. /\ pc' \in [Senders -> {"idle", "push", "locate", "enabled",
                                  "transport", "conn", "invoke", "wait"}]
          /\ ret' \in [Senders -> {"none", "nil", "error", "panic"}]
          /\ addr' \in [Senders -> Addrs \cup {Nowhere}]
      BY <1>12 DEF Conn, Panic
    <2> QED BY <1>12, <2>3, <2>4, <2>5 DEF Conn
  <1>13. ASSUME NEW s \in Senders, Invoke(s) PROVE TypeOK'
    <2>1. addr[s] \in Addrs /\ calls[s] \in Nat
      BY <1>13, SenderLocals DEF Invoke
    <2>2. [from |-> s, n |-> calls[s], to |-> addr[s], at |-> "sent"] \in Calls
      BY <2>1 DEF Calls
    <2> QED BY <1>13, <2>2 DEF Invoke
  <1>14. ASSUME NEW s \in Senders, Ack(s) PROVE TypeOK'
    BY <1>14 DEF Ack, Answered
  <1>15. ASSUME NEW s \in Senders, CallFails(s) PROVE TypeOK'
    BY <1>15 DEF CallFails, CallEnds
  <1>16. ASSUME NEW c \in net, DeliverGet(c) \/ DeliverTell(c) \/ Lose(c)
         PROVE  TypeOK'
    <2>1. c \in Calls /\ net \subseteq Calls
      BY <1>16
    <2>2. /\ <<c.from, c.n>> \in Tells
          /\ \A at \in {"sent", "found", "ok", "refused"} :
               [c EXCEPT !.at = at] \in Calls
      BY <2>1, CallFields DEF Tells
    <2>3. \/ net' = net \ {c}
          \/ \E at \in {"found", "ok", "refused"} :
               net' = (net \ {c}) \cup {[c EXCEPT !.at = at]}
      BY <1>16 DEF DeliverGet, DeliverTell, Lose, Progress
    <2>4. net' \subseteq Calls
      BY <2>1, <2>2, <2>3
    <2>5. reached' = reached \/ reached' = reached \cup {<<c.from, c.n>>}
      BY <1>16 DEF DeliverGet, DeliverTell, Lose
    <2>6. reached' \subseteq Tells
      BY <2>2, <2>5
    <2> QED BY <1>16, <2>4, <2>6 DEF DeliverGet, DeliverTell, Lose
  <1>17. CASE UNCHANGED vars
    BY <1>17 DEF vars
  <1> QED
    BY <1>1, <1>2, <1>3, <1>4, <1>5, <1>6, <1>7, <1>8, <1>9, <1>10, <1>11,
       <1>12, <1>13, <1>14, <1>15, <1>16, <1>17
    DEF Next, SenderStep, AdminStep

LEMMA SenderInvStep == TypeOK /\ SenderInv /\ [Next]_vars => SenderInv'
  <1> SUFFICES ASSUME TypeOK, SenderInv, [Next]_vars PROVE SenderInv'
    OBVIOUS
  <1>0. /\ pc \in [Senders -> {"idle", "push", "locate", "enabled",
                               "transport", "conn", "invoke", "wait"}]
        /\ ret \in [Senders -> {"none", "nil", "error", "panic"}]
        /\ addr \in [Senders -> Addrs \cup {Nowhere}]
        /\ gen \in [Senders -> 0 .. made]
        /\ calls \in [Senders -> Nat]
        /\ location \in Addrs \cup {Nowhere}
    BY DEF TypeOK
  <1> USE RemoteAssumption DEF SenderInv, Id, Goto, Return, sys, world, past,
                               AdminUnchanged
  <1>1. ASSUME UNCHANGED <<pc, addr, gen, calls, ret>>, reached \subseteq reached'
        PROVE  SenderInv'
    BY <1>1
  <1>2. ASSUME NEW s \in Senders, Tell(s) PROVE SenderInv'
    <2>1. /\ calls'[s] # 0
          /\ \A u \in Senders : u # s => /\ calls'[u] = calls[u]
                                         /\ pc'[u] = pc[u] /\ ret'[u] = ret[u]
          /\ UNCHANGED <<addr, gen>> /\ reached \subseteq reached'
      BY <1>0, <1>2 DEF Tell, DeliverHere
    <2>2. /\ ret'[s] = "none" /\ pc'[s] \in {"push", "locate"}
          /\ pc'[s] = "push" => <<s, calls'[s]>> \in reached'
      BY <1>0, <1>2 DEF Tell, DeliverHere
    <2> QED BY <2>1, <2>2
  <1>3. ASSUME NEW s \in Senders, Locate(s) PROVE SenderInv'
    BY <1>0, <1>3 DEF Locate
  <1>4. ASSUME NEW s \in Senders, Enabled(s) PROVE SenderInv'
    BY <1>0, <1>4 DEF Enabled, CheckEnabled
  <1>5. ASSUME NEW s \in Senders, Transport(s) PROVE SenderInv'
    BY <1>0, <1>5 DEF Transport, Panic
  <1>6. ASSUME NEW s \in Senders, Conn(s) PROVE SenderInv'
    BY <1>0, <1>6 DEF Conn, Panic
  <1>7. ASSUME NEW s \in Senders, Invoke(s) PROVE SenderInv'
    BY <1>0, <1>7 DEF Invoke
  <1>8. ASSUME NEW s \in Senders, Ack(s) PROVE SenderInv'
    BY <1>0, <1>8 DEF Ack, Answered
  <1>9. ASSUME NEW s \in Senders, CallFails(s) PROVE SenderInv'
    BY <1>0, <1>9 DEF CallFails, CallEnds
  <1>10. ASSUME NEW s \in Senders, PushReturns(s) PROVE SenderInv'
    BY <1>0, <1>10 DEF PushReturns
  <1> QED
    BY <1>1, <1>2, <1>3, <1>4, <1>5, <1>6, <1>7, <1>8, <1>9, <1>10
    DEF Next, SenderStep, AdminStep, EnableRemote, StopBegin, StopConns,
        CloseConns, StopClear, SetLocation, Move, Moved, DeliverGet,
        DeliverTell, Lose, vars

-----------------------------------------------------------------------------
(* Connections and tables *)

\* A new or a nil table holds no connection.
LEMMA NoConnsHold ==
    ASSUME NEW a \in Addrs
    PROVE  NoConns[a] = NoConn
  BY DEF NoConns

LEMMA TransportStep ==
    ASSUME TypeOK, SenderInv, TransportInv, StoppedIsClosed, [Next]_vars
    PROVE  TransportInv' /\ StoppedIsClosed'
  <1>0. /\ made \in Nat /\ remote \in 0 .. made /\ isNil \subseteq 1 .. made
        /\ table \in [Gens -> [Addrs -> Tells \cup {NoConn}]]
        /\ open \subseteq Tells /\ made \in 0 .. MaxEnabled
        /\ NoConn \notin Tells
    BY RemoteAssumption DEF TypeOK, Tells, NoConn
  <1> USE RemoteAssumption DEF AdminUnchanged, past
  <1>1. ASSUME UNCHANGED <<remote, made, table, isNil, open, admin>>,
               panicked \subseteq panicked'
        PROVE  TransportInv' /\ StoppedIsClosed'
    BY <1>1 DEF TransportInv, StoppedIsClosed
  <1>2. ASSUME EnableRemote PROVE TransportInv' /\ StoppedIsClosed'
    <2>1. /\ made' = made + 1 /\ remote' = made + 1 /\ remote = 0
          /\ UNCHANGED <<table, isNil, open, admin, panicked>> /\ admin = "idle"
      BY <1>2 DEF EnableRemote
    <2>2. open \subseteq panicked
      BY <2>1 DEF StoppedIsClosed
    <2>3. TransportInv'
      BY <1>0, <2>1 DEF TransportInv
    <2> QED BY <2>1, <2>2, <2>3 DEF StoppedIsClosed
  <1>3. ASSUME StopBegin PROVE TransportInv' /\ StoppedIsClosed'
    BY <1>3 DEF StopBegin, TransportInv, StoppedIsClosed
  <1>4. ASSUME StopConns PROVE TransportInv' /\ StoppedIsClosed'
    <2>1. /\ remote' = remote /\ made' = made /\ admin' = "clear"
          /\ isNil' = isNil \cup {remote} /\ panicked' = panicked
          /\ open' = open \ {table[remote][a] : a \in Addrs}
          /\ table' = [table EXCEPT ![remote] = NoConns]
          /\ remote # 0
      BY <1>4 DEF StopConns, CloseConns, TypeOK
    <2>2. remote \in Gens
      BY <1>0, <2>1 DEF Gens
    <2>3. open' \subseteq panicked
      BY <2>1 DEF StoppedIsClosed
    <2>4. TransportInv'
      BY <1>0, <2>1, <2>2 DEF TransportInv
    <2> QED BY <2>1, <2>3, <2>4 DEF StoppedIsClosed
  <1>5. ASSUME StopClear PROVE TransportInv' /\ StoppedIsClosed'
    <2>1. /\ admin = "clear" /\ admin' = "idle" /\ remote' = 0
          /\ UNCHANGED <<made, table, isNil, open, panicked>>
      BY <1>5 DEF StopClear
    <2>2. remote # 0 => \A a \in Addrs : table[remote][a] \notin open
      BY <1>0, <2>1, NoConnsHold DEF TransportInv
    <2>3. open \subseteq panicked
      BY <2>2 DEF StoppedIsClosed
    <2> QED BY <1>0, <2>1, <2>3 DEF TransportInv, StoppedIsClosed
  <1>6. ASSUME NEW s \in Senders, Conn(s) PROVE TransportInv' /\ StoppedIsClosed'
    <2>1. addr[s] \in Addrs /\ gen[s] \in Gens /\ gen[s] \in 1 .. made
      BY <1>6, SenderLocals DEF Conn
    <2>2. CASE UNCHANGED <<table, open, panicked>>
      BY <1>1, <1>6, <2>2 DEF Conn
    <2>3. CASE open' = open \cup {Id(s)} /\ table' = table
                 /\ panicked' = panicked \cup {Id(s)}
      <3>1. UNCHANGED <<remote, made, isNil, admin>>
        BY <1>6 DEF Conn
      <3> QED BY <2>3, <3>1 DEF TransportInv, StoppedIsClosed
    <2>4. CASE /\ gen[s] \notin isNil /\ table[gen[s]][addr[s]] = NoConn
               /\ table' = [table EXCEPT ![gen[s]][addr[s]] = Id(s)]
               /\ open' = open \cup {Id(s)} /\ panicked' = panicked
      <3>1. UNCHANGED <<remote, made, isNil, admin>>
        BY <1>6 DEF Conn
      <3>2. gen[s] = remote /\ remote # 0
        BY <2>1, <2>4 DEF TransportInv
      <3>3. /\ table'[remote][addr[s]] = Id(s)
            /\ \A a \in Addrs : a # addr[s] => table'[remote][a] = table[remote][a]
            /\ \A g \in Gens : g # remote => table'[g] = table[g]
        BY <1>0, <2>1, <2>4, <3>2
      <3>4. TransportInv'
        BY <1>0, <2>4, <3>1, <3>2, <3>3 DEF TransportInv, Gens
      <3>5. \A c \in open' : \/ \E a \in Addrs : table'[remote][a] = c
                            \/ c \in panicked
        <4> SUFFICES ASSUME NEW c \in open, c \notin panicked
                     PROVE  \E a \in Addrs : table'[remote][a] = c
          BY <2>1, <2>4, <3>3
        <4>1. PICK a \in Addrs : table[remote][a] = c
          BY DEF StoppedIsClosed
        <4>2. a # addr[s]
          BY <1>0, <2>4, <3>2, <4>1
        <4> QED BY <3>3, <4>1, <4>2
      <3> QED BY <2>4, <3>1, <3>2, <3>4, <3>5 DEF StoppedIsClosed
    <2> QED BY <1>6, <2>2, <2>3, <2>4 DEF Conn, Panic
  <1>7. ASSUME NEW s \in Senders, Transport(s)
        PROVE  TransportInv' /\ StoppedIsClosed'
    BY <1>1, <1>7 DEF Transport, Panic, sys
  <1> QED
    BY <1>1, <1>2, <1>3, <1>4, <1>5, <1>6, <1>7
    DEF Next, SenderStep, AdminStep, SetLocation, Move, Moved, Tell,
        PushReturns, Locate, Enabled, CheckEnabled, Invoke, Ack, Answered,
        CallFails, CallEnds, DeliverGet, DeliverTell, Lose, vars, sys

-----------------------------------------------------------------------------
(* Acknowledgements *)

LEMMA AckStep ==
    ASSUME TypeOK, SenderInv, AckInv, NilMeansReached, [Next]_vars
    PROVE  AckInv' /\ NilMeansReached'
  <1>0. /\ pc \in [Senders -> {"idle", "push", "locate", "enabled",
                               "transport", "conn", "invoke", "wait"}]
        /\ ret \in [Senders -> {"none", "nil", "error", "panic"}]
        /\ calls \in [Senders -> Nat]
        /\ net \subseteq Calls
    BY DEF TypeOK
  <1> USE DEF AckInv, NilMeansReached, Id, Goto, Return, Panic, past
  \* A step in which calls end only with an error and no call is answered.
  <1>1. ASSUME calls' = calls, reached \subseteq reached',
               \A c \in net' : c.at = "ok" => c \in net,
               \A s \in Senders : ret'[s] = "nil" => ret[s] = "nil"
        PROVE  AckInv' /\ NilMeansReached'
    BY <1>1
  <1>2. ASSUME NEW s \in Senders, Tell(s) PROVE AckInv' /\ NilMeansReached'
    <2>1. /\ calls'[s] = calls[s] + 1
          /\ \A u \in Senders : u # s => calls'[u] = calls[u] /\ ret'[u] = ret[u]
          /\ net' = net /\ reached \subseteq reached'
      BY <1>0, <1>2 DEF Tell, DeliverHere
    <2>2. ret'[s] = "none"
      BY <1>0, <1>2 DEF Tell
    <2> QED BY <2>1, <2>2
  <1>3. ASSUME NEW s \in Senders,
               \/ Locate(s) \/ Enabled(s) \/ Transport(s) \/ Conn(s)
               \/ CallFails(s)
        PROVE  AckInv' /\ NilMeansReached'
    <2>1. UNCHANGED <<calls, reached, net>>
      BY <1>3 DEF Locate, Enabled, CheckEnabled, Transport, Conn, CallFails,
                  CallEnds
    <2>2. \A u \in Senders : ret'[u] = "nil" => ret[u] = "nil"
      BY <1>0, <1>3 DEF Locate, Enabled, CheckEnabled, Transport, Conn,
                        CallFails, CallEnds
    <2> QED BY <1>1, <2>1, <2>2
  <1>4. ASSUME NEW s \in Senders, Invoke(s) PROVE AckInv' /\ NilMeansReached'
    <2>1. calls' = calls /\ reached' = reached
      BY <1>4 DEF Invoke
    <2>2. \A u \in Senders : ret'[u] = "nil" => ret[u] = "nil"
      BY <1>0, <1>4 DEF Invoke
    <2>3. \A c \in net' : c.at = "ok" => c \in net
      BY <1>4 DEF Invoke
    <2> QED BY <1>1, <2>1, <2>2, <2>3
  <1>5. ASSUME NEW s \in Senders, Ack(s) PROVE AckInv' /\ NilMeansReached'
    <2>1. PICK c \in net : Answered(s, c, IF c.at = "ok" THEN "nil" ELSE "error")
      BY <1>5 DEF Ack
    <2>2. /\ c.from = s /\ c.n = calls[s] /\ net' \subseteq net
          /\ reached' = reached /\ calls' = calls
          /\ ret'[s] = (IF c.at = "ok" THEN "nil" ELSE "error")
          /\ \A u \in Senders : u # s => ret'[u] = ret[u]
      BY <1>0, <2>1 DEF Answered
    <2>3. ret'[s] = "nil" => <<s, calls[s]>> \in reached
      BY <2>1, <2>2
    <2> QED BY <2>2, <2>3
  <1>6. ASSUME NEW c \in net, DeliverGet(c) PROVE AckInv' /\ NilMeansReached'
    <2>1. UNCHANGED <<calls, reached, ret>>
      BY <1>6 DEF DeliverGet
    <2>2. \A d \in net' : d.at = "ok" => d \in net
      <3>1. c \in Calls
        BY <1>0, <1>6
      <3>2. PICK at \in {"refused", "found"} : Progress(c, at)
        BY <1>6 DEF DeliverGet
      <3>3. [c EXCEPT !.at = at].at = at
        BY <3>1, CallFields
      <3> QED BY <3>2, <3>3 DEF Progress
    <2> QED BY <1>1, <2>1, <2>2
  <1>7. ASSUME NEW c \in net, DeliverTell(c) PROVE AckInv' /\ NilMeansReached'
    <2>1. /\ UNCHANGED <<calls, ret>>
          /\ reached' = reached \cup {<<c.from, c.n>>}
          /\ net' = (net \ {c}) \cup {[c EXCEPT !.at = "ok"]}
      BY <1>7 DEF DeliverTell, Progress
    <2>2. [c EXCEPT !.at = "ok"].from = c.from /\ [c EXCEPT !.at = "ok"].n = c.n
      BY <1>0, <1>7, CallFields
    <2> QED BY <2>1, <2>2
  <1>8. ASSUME NEW c \in net, Lose(c) PROVE AckInv' /\ NilMeansReached'
    BY <1>1, <1>8 DEF Lose
  <1>9. ASSUME NEW s \in Senders, PushReturns(s) PROVE AckInv' /\ NilMeansReached'
    <2>1. /\ UNCHANGED <<net, reached, calls>> /\ <<s, calls[s]>> \in reached
          /\ \A u \in Senders : u # s => ret'[u] = ret[u]
      BY <1>0, <1>9 DEF PushReturns, SenderInv
    <2> QED BY <2>1
  <1>10. CASE UNCHANGED <<net, reached, calls, ret>>
    BY <1>1, <1>10
  <1> QED
    BY <1>2, <1>3, <1>4, <1>5, <1>6, <1>7, <1>8, <1>9, <1>10
    DEF Next, SenderStep, AdminStep, EnableRemote, StopBegin, StopConns,
        CloseConns, StopClear, SetLocation, Move, Moved, AdminUnchanged, vars

-----------------------------------------------------------------------------
(* Panics *)

LEMMA PanicStep ==
    ASSUME TypeOK, SenderInv, TransportInv, PanicOnlyAtStop, [Next]_vars
    PROVE  PanicOnlyAtStop'
  <1>0. /\ pc \in [Senders -> {"idle", "push", "locate", "enabled",
                               "transport", "conn", "invoke", "wait"}]
        /\ ret \in [Senders -> {"none", "nil", "error", "panic"}]
        /\ gen \in [Senders -> 0 .. made] /\ made \in Nat /\ remote \in 0 .. made
    BY RemoteAssumption DEF TypeOK
  <1> USE DEF PanicOnlyAtStop, Goto, Return, Panic, AdminUnchanged, past
  \* A step in which nobody panics.
  <1>1. ASSUME UNCHANGED <<remote, admin>>,
               \A s \in Senders : ret'[s] = "panic" =>
                                    ret[s] = "panic" /\ gen'[s] = gen[s]
        PROVE  PanicOnlyAtStop'
    BY <1>1
  <1>2. ASSUME EnableRemote PROVE PanicOnlyAtStop'
    BY <1>0, <1>2 DEF EnableRemote
  <1>3. ASSUME StopBegin \/ StopConns \/ StopClear PROVE PanicOnlyAtStop'
    BY <1>3 DEF StopBegin, StopConns, CloseConns, StopClear
  <1>4. ASSUME NEW s \in Senders,
               \/ Tell(s) \/ PushReturns(s) \/ Locate(s) \/ Invoke(s)
               \/ Ack(s) \/ CallFails(s)
        PROVE  PanicOnlyAtStop'
    <2>1. UNCHANGED <<remote, admin, gen>>
      BY <1>4 DEF Tell, PushReturns, Locate, Invoke, Ack, Answered, CallFails,
                  CallEnds, sys
    <2>2. \A u \in Senders : ret'[u] = "panic" => ret[u] = "panic"
      BY <1>0, <1>4 DEF Tell, PushReturns, Locate, Invoke, Ack, Answered,
                        CallFails, CallEnds
    <2> QED BY <1>1, <2>1, <2>2
  <1>5. ASSUME NEW s \in Senders, Enabled(s) PROVE PanicOnlyAtStop'
    <2>1. UNCHANGED <<remote, admin>> /\ ret[s] = "none"
      BY <1>5, SenderLocals DEF Enabled, CheckEnabled, sys
    <2>2. /\ ret'[s] # "panic"
          /\ \A u \in Senders : u # s => ret'[u] = ret[u] /\ gen'[u] = gen[u]
      BY <1>0, <1>5, <2>1 DEF Enabled, CheckEnabled
    <2> QED BY <1>1, <2>1, <2>2
  <1>6. ASSUME NEW s \in Senders, Transport(s) PROVE PanicOnlyAtStop'
    <2>1. UNCHANGED <<remote, admin>> /\ ret[s] = "none" /\ gen[s] # 0
      BY <1>6, SenderLocals DEF Transport, sys
    <2>2. /\ ret'[s] = "panic" => remote = 0 /\ gen'[s] = gen[s]
          /\ \A u \in Senders : u # s => ret'[u] = ret[u] /\ gen'[u] = gen[u]
      BY <1>0, <1>6, <2>1 DEF Transport
    <2> QED BY <2>1, <2>2
  <1>7. ASSUME NEW s \in Senders, Conn(s) PROVE PanicOnlyAtStop'
    <2>1. UNCHANGED <<remote, admin, gen>> /\ ret[s] = "none" /\ gen[s] # 0
      BY <1>7, SenderLocals DEF Conn
    <2>2. /\ ret'[s] = "panic" => gen[s] \in isNil
          /\ \A u \in Senders : u # s => ret'[u] = ret[u]
      BY <1>0, <1>7, <2>1 DEF Conn
    <2> QED BY <2>1, <2>2 DEF TransportInv
  <1>8. CASE UNCHANGED <<remote, admin, gen, ret>>
    BY <1>1, <1>8
  <1> QED
    BY <1>2, <1>3, <1>4, <1>5, <1>6, <1>7, <1>8
    DEF Next, SenderStep, AdminStep, SetLocation, Move, Moved, DeliverGet,
        DeliverTell, Lose, vars, sys

-----------------------------------------------------------------------------
(* The theorems *)

LEMMA RemoteInvariant == Spec => []IInv
  <1>1. Init => IInv
    <2> SUFFICES ASSUME Init PROVE IInv
      OBVIOUS
    <2>1. TypeOK
      BY RemoteAssumption DEF Init, TypeOK, Gens, NoConns
    <2>2. SenderInv /\ AckInv /\ NilMeansReached /\ PanicOnlyAtStop
      BY DEF Init, SenderInv, AckInv, NilMeansReached, PanicOnlyAtStop
    <2>3. TransportInv /\ StoppedIsClosed
      BY DEF Init, TransportInv, StoppedIsClosed
    <2> QED BY <2>1, <2>2, <2>3 DEF IInv
  <1>2. IInv /\ [Next]_vars => IInv'
    BY TypeStep, SenderInvStep, TransportStep, AckStep, PanicStep DEF IInv
  <1> QED BY <1>1, <1>2, PTL DEF Spec

(***************************************************************************)
(* The transports, the calls in the network and the locals of every Tell   *)
(* keep their types, and while StopRemote runs, s.remote is the transport  *)
(* it dereferences (remote.go:126-139).                                    *)
(***************************************************************************)
THEOREM TypeCorrect == Spec => []TypeOK
  <1>1. IInv => TypeOK
    BY DEF IInv
  <1> QED BY <1>1, RemoteInvariant, PTL

(***************************************************************************)
(* A nil from Tell means that the message was handed to the mailbox of the *)
(* actor, here or in a peer, for any number of senders and peers and       *)
(* whatever the network loses (remote.go:171-190, 232-253).                *)
(***************************************************************************)
THEOREM NilIsDelivered == Spec => []NilMeansReached
  <1>1. IInv => NilMeansReached
    BY DEF IInv
  <1> QED BY <1>1, RemoteInvariant, PTL

(***************************************************************************)
(* Every open connection is in the table of the transport in use, or was   *)
(* dialled by a delivery that then panicked: StopRemote closes the cached  *)
(* ones, and a delivery that still holds a stopped transport caches none   *)
(* in it.  "All client connections" (remote.go:125) is more than the code  *)
(* does: the connection of remote.go:200 stays open when line 204 panics.  *)
(***************************************************************************)
THEOREM StopCloses == Spec => []StoppedIsClosed
  <1>1. IInv => StoppedIsClosed
    BY DEF IInv
  <1> QED BY <1>1, RemoteInvariant, PTL

(***************************************************************************)
(* A delivery panics only when the transport it saw enabled has been       *)
(* stopped or is being stopped (remote.go:172-175, 194-206).               *)
(***************************************************************************)
THEOREM PanicNeedsStop == Spec => []PanicOnlyAtStop
  <1>1. IInv => PanicOnlyAtStop
    BY DEF IInv
  <1> QED BY <1>1, RemoteInvariant, PTL
=============================================================================
