---------------------------- MODULE TossAuthProofs -----------------------------
(***************************************************************************)
(* What was in the process, in the file or on its way before invalidate()  *)
(* does not come back while the tokens issued since live, neither to       *)
(* memory nor in a retry, for any number of tasks and tokens.  The reason  *)
(* is in the numbers of the tokens.  invalidate() and a token request are  *)
(* made under the same lock, so a token that is being issued is newer than *)
(* all that were issued before the last invalidate().  From then on the    *)
(* token in memory is newer (Older); and the file is read only when that   *)
(* one has expired.                                                        *)
(***************************************************************************)
EXTENDS TossAuth, TLAPS

\* A frame of a call, where n tokens are issued, b of them before the last invalidate(),
\* and those in e have expired: a token that is used was issued; a 401 is retried once;
\* what the retry goes out with is newer than what its invalidate() saw.
FrameOK(f, n, b, e) ==
  /\ f.step \in {"issued", "send", "denied"} => f.token \in 1 .. n
  /\ f.step = "denied" => f.try = 1
  /\ f.try = 2 => f.since <= b
  /\ f.try = 2 /\ f.step = "send" => f.token > f.since \/ \E m \in e : m > f.since

\* Only the first frame of a call is not in send().
Waiting(f) == \A i \in 2 .. Len(f) : f[i].step = "send"

CallsOK ==
  \A t \in Task : /\ \A i \in DOMAIN calls[t] : FrameOK(calls[t][i], issued, buried, expired)
                  /\ Waiting(calls[t])

\* A token request is made under the lock, and what it gets is newer than what was there at
\* the last invalidate().
Issuing ==
  \A t \in Task : At(t, "issuing") \/ At(t, "issued") => lock = t

IssuedNewer ==
  \A t \in Task : At(t, "issued") => buried < Top(t).token

Older == invalidated \/ buried = 0 \/ buried < mem \/ LaterExpired(buried)

Numbers ==
  /\ mem \in 0 .. issued /\ disk \in 0 .. issued
  /\ invalidated => mem = 0

AuthInv == AuthTypeOK /\ Numbers /\ CallsOK /\ Issuing /\ IssuedNewer /\ Older

-------------------------------------------------------------------------------
\* The first frame of a call is replaced.
LEMMA FirstFrame ==
  ASSUME NEW f \in Seq(Frame), f # <<>>, NEW g \in Frame
  PROVE  LET h == [f EXCEPT ![1] = g]
         IN  /\ h \in Seq(Frame) /\ h # <<>> /\ Head(h) = g
             /\ Len(h) = Len(f) /\ DOMAIN h = DOMAIN f /\ h[1] = g
             /\ \A i \in 2 .. Len(h) : h[i] = f[i]
  BY SMT

\* A frame is put before those of a call, or taken away.
LEMMA PushFrame ==
  ASSUME NEW f \in Seq(Frame), NEW g \in Frame
  PROVE  LET h == <<g>> \o f
         IN  /\ h \in Seq(Frame) /\ h # <<>> /\ Head(h) = g
             /\ Len(h) = Len(f) + 1 /\ h[1] = g
             /\ \A i \in 2 .. Len(h) : h[i] = f[i - 1]
  BY SMT

LEMMA PopFrame ==
  ASSUME NEW f \in Seq(Frame), f # <<>>
  PROVE  /\ Tail(f) \in Seq(Frame) /\ Len(Tail(f)) = Len(f) - 1
         /\ \A i \in 1 .. Len(Tail(f)) : Tail(f)[i] = f[i + 1]
         /\ Tail(f) # <<>> => Head(Tail(f)) = f[2]
  BY SMT

\* The running frame of a call is its first.
LEMMA FirstOf ==
  ASSUME AuthTypeOK, NEW t \in Task, Active(t)
  PROVE  /\ calls \in [Task -> Seq(Frame)] /\ calls[t] \in Seq(Frame) /\ calls[t] # <<>>
         /\ 1 \in DOMAIN calls[t] /\ calls[t][1] = Top(t) /\ Top(t) \in Frame
<1>1. calls \in [Task -> Seq(Frame)] /\ calls[t] \in Seq(Frame) /\ calls[t] # <<>>
  BY DEF AuthTypeOK, Active
<1> QED
  BY <1>1 DEF Top

\* The first frame of the call of t becomes g; the other calls stay.
Becomes(t, g) == calls' = [calls EXCEPT ![t] = [calls[t] EXCEPT ![1] = g]]

LEMMA BecomesTyped ==
  ASSUME AuthTypeOK, NEW t \in Task, Active(t), NEW g \in Frame, Becomes(t, g)
  PROVE  /\ calls' \in [Task -> Seq(Frame)]
         /\ calls'[t] = [calls[t] EXCEPT ![1] = g]
         /\ \A u \in Task \ {t} : calls'[u] = calls[u]
<1>1. [calls[t] EXCEPT ![1] = g] \in Seq(Frame) /\ calls \in [Task -> Seq(Frame)]
  BY FirstOf, FirstFrame
<1> QED
  BY <1>1 DEF Becomes

LEMMA GoesFrame ==
  ASSUME AuthTypeOK, NEW t \in Task, Active(t), NEW s \in Step, Goes(t, s)
  PROVE  \E g \in Frame : /\ g = [Top(t) EXCEPT !.step = s]
                          /\ g.step = s /\ g.token = Top(t).token
                          /\ g.try = Top(t).try /\ g.since = Top(t).since
                          /\ Becomes(t, g)
<1> DEFINE g == [Top(t) EXCEPT !.step = s]
<1>1. /\ g \in Frame /\ g.step = s /\ g.token = Top(t).token /\ g.try = Top(t).try
      /\ g.since = Top(t).since
  BY FirstOf DEF Frame
<1>2. Becomes(t, g)
  BY FirstOf DEF Goes, Becomes
<1> QED
  BY <1>1, <1>2

LEMMA GoesWithFrame ==
  ASSUME AuthTypeOK, NEW t \in Task, Active(t), NEW s \in Step, NEW n \in Token, GoesWith(t, s, n)
  PROVE  \E g \in Frame : /\ g.step = s /\ g.token = n
                          /\ g.try = Top(t).try /\ g.since = Top(t).since
                          /\ Becomes(t, g)
<1> DEFINE g == [Top(t) EXCEPT !.step = s, !.token = n]
<1>1. /\ g \in Frame /\ g.step = s /\ g.token = n /\ g.try = Top(t).try
      /\ g.since = Top(t).since
  BY FirstOf DEF Frame
<1>2. Becomes(t, g)
  <2>1. PICK d : d = [calls EXCEPT ![t] = [calls[t] EXCEPT ![1] = [Top(t) EXCEPT !.step = s]]]
    OBVIOUS
  <2>2. calls' = [d EXCEPT ![t] = [d[t] EXCEPT ![1] = [d[t][1] EXCEPT !.token = n]]]
    BY <2>1, FirstOf DEF GoesWith
  <2>3. d[t] = [calls[t] EXCEPT ![1] = [Top(t) EXCEPT !.step = s]]
    BY <2>1, FirstOf
  <2>4. d[t][1] = [Top(t) EXCEPT !.step = s]
    BY <2>3, FirstOf
  <2>5. [d[t] EXCEPT ![1] = [d[t][1] EXCEPT !.token = n]] = [calls[t] EXCEPT ![1] = g]
    BY <2>3, <2>4, FirstOf
  <2> QED
    BY <2>1, <2>2, <2>5, FirstOf DEF Becomes
<1> QED
  BY <1>1, <1>2

LEMMA RetriedFrame ==
  ASSUME AuthTypeOK, NEW t \in Task, Active(t), Top(t).try = 1, Retried(t)
  PROVE  \E g \in Frame : g.step = "token" /\ g.try = 2 /\ g.since = issued /\ Becomes(t, g)
<1> DEFINE g == [Top(t) EXCEPT !.try = 2, !.step = "token", !.token = 0, !.since = issued]
<1>1. g \in Frame /\ g.step = "token" /\ g.try = 2 /\ g.since = issued
  <2>1. "token" \in Step /\ 2 \in 1 .. 2 /\ 0 \in Token /\ issued \in Token
    BY AuthAssumption DEF Step, Token, AuthTypeOK
  <2> QED
    BY <2>1, FirstOf DEF Frame
<1>2. Becomes(t, g)
  BY FirstOf DEF Retried, Becomes
<1> QED
  BY <1>1, <1>2

-------------------------------------------------------------------------------
\* What a frame says stays true while tokens are issued, invalidated and expire.
Later ==
  /\ issued \in Nat /\ issued' \in Nat /\ issued <= issued'
  /\ buried \in Nat /\ buried' \in Nat /\ buried <= buried'
  /\ expired \subseteq expired'

LEMMA FrameStays ==
  ASSUME Later, NEW f \in Frame, FrameOK(f, issued, buried, expired)
  PROVE  FrameOK(f, issued', buried', expired')
BY DEF Later, FrameOK, Frame, Token

\* The call of one task changes; its frames stay good.
LEMMA OneCall ==
  ASSUME AuthTypeOK, CallsOK, Later, NEW t \in Task,
         \A u \in Task \ {t} : calls'[u] = calls[u],
         \A i \in DOMAIN calls'[t] : FrameOK(calls'[t][i], issued', buried', expired'),
         Waiting(calls'[t])
  PROVE  CallsOK'
<1> SUFFICES ASSUME NEW u \in Task
             PROVE  /\ \A i \in DOMAIN calls'[u] : FrameOK(calls'[u][i], issued', buried', expired')
                    /\ Waiting(calls'[u])
  BY DEF CallsOK, Waiting, FrameOK
<1>1. CASE u = t
  BY <1>1
<1>2. CASE u # t
  <2>1. calls'[u] = calls[u] /\ calls[u] \in Seq(Frame)
    BY <1>2 DEF AuthTypeOK
  <2>2. ASSUME NEW i \in DOMAIN calls[u] PROVE FrameOK(calls[u][i], issued', buried', expired')
    <3>1. calls[u][i] \in Frame /\ FrameOK(calls[u][i], issued, buried, expired)
      BY <2>1 DEF CallsOK
    <3> QED
      BY <3>1, FrameStays
  <2> QED
    BY <2>1, <2>2 DEF CallsOK
<1> QED
  BY <1>1, <1>2

\* A step that replaces the first frame of the call of t.
LEMMA Replaced ==
  ASSUME AuthTypeOK, CallsOK, Later, NEW t \in Task, Active(t), NEW g \in Frame,
         FrameOK(g, issued', buried', expired'), Becomes(t, g)
  PROVE  CallsOK' /\ Active(t)' /\ Top(t)' = g
<1> DEFINE f == calls[t]
           h == [f EXCEPT ![1] = g]
<1>1. f \in Seq(Frame) /\ f # <<>>
  BY FirstOf
<1>2. /\ h \in Seq(Frame) /\ h # <<>> /\ Head(h) = g
      /\ Len(h) = Len(f) /\ DOMAIN h = DOMAIN f /\ h[1] = g
      /\ \A i \in 2 .. Len(h) : h[i] = f[i]
  BY <1>1, FirstFrame
<1>3. calls'[t] = h /\ \A u \in Task \ {t} : calls'[u] = calls[u]
  BY BecomesTyped
<1> HIDE DEF h
<1>4. \A i \in DOMAIN h : FrameOK(h[i], issued', buried', expired')
  <2> SUFFICES ASSUME NEW i \in DOMAIN h PROVE FrameOK(h[i], issued', buried', expired')
    OBVIOUS
  <2>1. CASE i = 1
    BY <2>1, <1>2
  <2>2. CASE i # 1
    <3>1. i \in 2 .. Len(h) /\ i \in DOMAIN f /\ h[i] = f[i]
      BY <2>2, <1>2
    <3>2. f[i] \in Frame /\ FrameOK(f[i], issued, buried, expired)
      BY <1>1, <3>1 DEF CallsOK
    <3> QED
      BY <3>1, <3>2, FrameStays
  <2> QED
    BY <2>1, <2>2
<1>5. Waiting(h)
  BY <1>1, <1>2 DEF Waiting, CallsOK
<1>6. CallsOK'
  BY <1>3, <1>4, <1>5, OneCall
<1> QED
  BY <1>2, <1>3, <1>6 DEF Active, Top

\* The first frame of a call.
LEMMA TopOK ==
  ASSUME AuthTypeOK, CallsOK, NEW t \in Task, Active(t)
  PROVE  Top(t) \in Frame /\ FrameOK(Top(t), issued, buried, expired)
BY FirstOf DEF CallsOK

\* The numbers in a state of the right type.
LEMMA Naturals ==
  ASSUME AuthTypeOK
  PROVE  /\ issued \in Nat /\ buried \in Nat /\ mem \in Nat /\ disk \in Nat
         /\ buried <= issued /\ expired \subseteq Nat
BY AuthAssumption DEF AuthTypeOK, Token

-------------------------------------------------------------------------------
\* The invariant speaks of the frames of a call at a token request only through these facts.
Locks(t) ==
  /\ At(t, "issuing") \/ At(t, "issued") => lock = t
  /\ At(t, "issued") => buried < Top(t).token

\* A task whose call and whose lock stay the same keeps its facts while nothing is
\* invalidated.
LEMMA Undisturbed ==
  ASSUME NEW u \in Task, Locks(u), calls'[u] = calls[u], buried' = buried,
         lock' = lock \/ lock # u
  PROVE  Locks(u)'
  BY DEF Locks, At, Active, Top

\* What is left to show of a step that changes the call of one task.
LEMMA OneTask ==
  ASSUME AuthInv, NEW t \in Task, Locks(t)', \A u \in Task \ {t} : calls'[u] = calls[u],
         buried' = buried, lock' = lock \/ lock \in {t, NoTask}
  PROVE  Issuing' /\ IssuedNewer'
<1>1. \A u \in Task : Locks(u)
  BY DEF AuthInv, Issuing, IssuedNewer, Locks
<1>2. \A u \in Task \ {t} : Locks(u)'
  <2> SUFFICES ASSUME NEW u \in Task \ {t} PROVE Locks(u)'
    OBVIOUS
  <2>1. lock' = lock \/ lock # u
    BY AuthAssumption
  <2> QED
    BY <1>1, <2>1, Undisturbed
<1> QED
  BY <1>2 DEF Issuing, IssuedNewer, Locks

\* A step that replaces the first frame of one call and invalidates nothing.
LEMMA FrameStep ==
  ASSUME AuthInv, Later, NEW t \in Task, Active(t), NEW g \in Frame, Becomes(t, g),
         FrameOK(g, issued', buried', expired'),
         buried' = buried, lock' = lock \/ lock \in {t, NoTask},
         g.step \in {"issuing", "issued"} => lock' = t,
         g.step = "issued" => buried < g.token
  PROVE  CallsOK' /\ Issuing' /\ IssuedNewer' /\ calls' \in [Task -> Seq(Frame)]
<1>1. CallsOK' /\ Active(t)' /\ Top(t)' = g
  BY Replaced DEF AuthInv
<1>2. Locks(t)'
  BY <1>1 DEF Locks, At
<1>3. calls' \in [Task -> Seq(Frame)] /\ \A u \in Task \ {t} : calls'[u] = calls[u]
  BY BecomesTyped DEF AuthInv
<1> QED
  BY <1>1, <1>2, <1>3, OneTask

\* A step after which the call of one task is another, not at a token request.
LEMMA QuietStep ==
  ASSUME AuthInv, Later, NEW t \in Task,
         \A u \in Task \ {t} : calls'[u] = calls[u],
         \A i \in DOMAIN calls'[t] : FrameOK(calls'[t][i], issued', buried', expired'),
         Waiting(calls'[t]),
         calls'[t] # <<>> => Head(calls'[t]).step \notin {"issuing", "issued"},
         buried' = buried, lock' = lock \/ lock \in {t, NoTask}
  PROVE  CallsOK' /\ Issuing' /\ IssuedNewer'
<1>1. CallsOK'
  BY OneCall DEF AuthInv
<1>2. Locks(t)'
  BY DEF Locks, At, Active, Top
<1> QED
  BY <1>1, <1>2, OneTask

\* A step that leaves the server and what was invalidated.
LEMMA SameServer ==
  ASSUME AuthTypeOK, UNCHANGED serverVars, buried' = buried
  PROVE  /\ Later /\ issued' = issued /\ expired' = expired
         /\ issued \in Nat /\ buried \in Nat /\ mem \in Nat /\ disk \in Nat
BY Naturals DEF Later, serverVars

-------------------------------------------------------------------------------
LEMMA TokenInMemoryStep ==
  ASSUME AuthInv, NEW t \in Task, TokenInMemory(t)
  PROVE  AuthInv'
<1>1. AuthTypeOK /\ Active(t) /\ GoesWith(t, "send", mem)
  BY DEF AuthInv, TokenInMemory, At
<1>2. Later /\ issued' = issued /\ expired' = expired /\ buried' = buried /\ buried \in Nat
  BY <1>1, SameServer DEF TokenInMemory
<1>3. mem \in Token /\ mem \in 1 .. issued /\ mem \notin expired /\ ~invalidated
  BY <1>1, Naturals DEF AuthInv, AuthTypeOK, Numbers, TokenInMemory, Usable, Token
<1>4. PICK g \in Frame : /\ g.step = "send" /\ g.token = mem
                         /\ g.try = Top(t).try /\ g.since = Top(t).since /\ Becomes(t, g)
  BY <1>1, <1>3, GoesWithFrame DEF Step
<1>5. FrameOK(g, issued, buried, expired)
  <2>1. FrameOK(Top(t), issued, buried, expired) /\ Top(t) \in Frame
    BY <1>1, TopOK DEF AuthInv
  <2>2. buried < mem \/ LaterExpired(buried) \/ buried = 0
    BY <1>3 DEF AuthInv, Older
  <2> QED
    BY <1>2, <1>3, <1>4, <2>1, <2>2 DEF FrameOK, LaterExpired, Frame, Token, AuthInv, AuthTypeOK
<1>6. CallsOK' /\ Issuing' /\ IssuedNewer' /\ calls' \in [Task -> Seq(Frame)]
  BY <1>1, <1>2, <1>4, <1>5, FrameStep DEF TokenInMemory
<1> QED
  BY <1>6 DEF TokenInMemory, serverVars, AuthInv, AuthTypeOK, Numbers, Older, LaterExpired

LEMMA TokenLockedStep ==
  ASSUME AuthInv, NEW t \in Task, TokenLocked(t)
  PROVE  AuthInv'
<1>1. AuthTypeOK /\ Active(t) /\ lock = NoTask
  BY DEF AuthInv, TokenLocked, At
<1>2. Later /\ issued' = issued /\ expired' = expired /\ buried' = buried /\ buried \in Nat
  BY <1>1, SameServer DEF TokenLocked
<1>3. FrameOK(Top(t), issued, buried, expired) /\ Top(t) \in Frame
  BY <1>1, TopOK DEF AuthInv
<1>4. ASSUME NEW n \in Token, ReadsDisk(n), mem' = n, GoesWith(t, "send", n), lock' = lock
      PROVE  AuthInv'
  <2>1. /\ n \in 1 .. issued /\ ~invalidated
        /\ buried = 0 \/ LaterExpired(buried)
    <3>1. n \in 1 .. issued /\ ~invalidated
      BY <1>1, <1>4, Naturals DEF AuthInv, Numbers, ReadsDisk, Usable, Token
    <3>2. mem = 0 \/ mem \in expired
      BY DEF TokenLocked, Usable
    <3> QED
      BY <1>1, <3>1, <3>2, Naturals DEF AuthInv, Older, LaterExpired
  <2>2. PICK g \in Frame : /\ g.step = "send" /\ g.token = n
                           /\ g.try = Top(t).try /\ g.since = Top(t).since /\ Becomes(t, g)
    BY <1>1, <1>4, GoesWithFrame DEF Step
  <2>3. FrameOK(g, issued, buried, expired)
    BY <1>1, <1>2, <1>3, <2>1, <2>2, Naturals DEF FrameOK, LaterExpired, Frame, Token
  <2>4. CallsOK' /\ Issuing' /\ IssuedNewer' /\ calls' \in [Task -> Seq(Frame)]
    BY <1>1, <1>2, <1>4, <2>2, <2>3, FrameStep
  <2>5. Older' /\ Numbers'
    BY <1>1, <1>2, <1>4, <2>1 DEF Older, Numbers, LaterExpired, TokenLocked, serverVars, AuthInv
  <2> QED
    BY <1>4, <2>4, <2>5 DEF TokenLocked, serverVars, AuthInv, AuthTypeOK
<1>5. ASSUME lock' = t, Goes(t, "issuing"), mem' = mem
      PROVE  AuthInv'
  <2>1. PICK g \in Frame : /\ g.step = "issuing" /\ g.token = Top(t).token
                           /\ g.try = Top(t).try /\ g.since = Top(t).since /\ Becomes(t, g)
    BY <1>1, <1>5, GoesFrame DEF Step
  <2>2. FrameOK(g, issued, buried, expired)
    BY <1>3, <2>1 DEF FrameOK
  <2>3. CallsOK' /\ Issuing' /\ IssuedNewer' /\ calls' \in [Task -> Seq(Frame)]
    BY <1>1, <1>2, <1>5, <2>1, <2>2, FrameStep
  <2> QED
    BY <1>5, <2>3
    DEF TokenLocked, serverVars, AuthInv, AuthTypeOK, Numbers, Older, LaterExpired
<1> QED
  BY <1>4, <1>5 DEF TokenLocked

\* The server issues a token.
LEMMA NewTokenTyped ==
  ASSUME AuthTypeOK, NewToken
  PROVE  /\ Later /\ issued' = issued + 1 /\ issued' \in Token /\ issued + 1 \in 1 .. issued'
         /\ 1 .. issued \subseteq 1 .. issued' /\ 0 .. issued \subseteq 0 .. issued'
         /\ honoured' \subseteq 1 .. issued' /\ expired' \subseteq 1 .. issued'
         /\ buried' = buried /\ buried' \in 0 .. issued'
<1>1. /\ issued \in Nat /\ issued' = issued + 1 /\ issued' \in Token /\ issued + 1 \in 1 .. issued'
      /\ buried' = buried /\ expired' = expired
  BY Naturals, AuthAssumption DEF NewToken, Token
<1>2. 1 .. issued \subseteq 1 .. issued' /\ 0 .. issued \subseteq 0 .. issued'
  BY <1>1
<1>3. honoured' \subseteq 1 .. issued' /\ expired' \subseteq 1 .. issued' /\ buried' \in 0 .. issued'
  BY <1>1, <1>2 DEF NewToken, AuthTypeOK
<1>4. Later
  BY <1>1, Naturals DEF Later
<1> QED
  BY <1>1, <1>2, <1>3, <1>4

LEMMA IssuesStep ==
  ASSUME AuthInv, NEW t \in Task, Issues(t)
  PROVE  AuthInv'
<1>1. AuthTypeOK /\ At(t, "issuing") /\ Active(t) /\ NewToken
  BY DEF AuthInv, Issues, At
<1>2. lock = t /\ lock' = t
  BY <1>1 DEF AuthInv, Issuing, NewToken
<1>3. /\ Later /\ issued' = issued + 1 /\ issued' \in Token /\ issued + 1 \in 1 .. issued'
      /\ 1 .. issued \subseteq 1 .. issued' /\ 0 .. issued \subseteq 0 .. issued'
      /\ honoured' \subseteq 1 .. issued' /\ expired' \subseteq 1 .. issued'
      /\ buried' = buried /\ buried' \in 0 .. issued'
  BY <1>1, NewTokenTyped
<1>4. PICK n \in Token : n = issued + 1 /\ GoesWith(t, "issued", n)
  BY <1>3 DEF Issues, GoesWith
<1>5. PICK g \in Frame : /\ g.step = "issued" /\ g.token = n
                         /\ g.try = Top(t).try /\ g.since = Top(t).since /\ Becomes(t, g)
  BY <1>1, <1>4, GoesWithFrame DEF Step
<1>6. FrameOK(g, issued', buried', expired')
  <2>1. FrameOK(Top(t), issued, buried, expired)
    BY <1>1, TopOK DEF AuthInv
  <2> QED
    BY <1>3, <1>4, <1>5, <2>1 DEF FrameOK
<1>7. buried < g.token
  BY <1>1, <1>4, <1>5, Naturals
<1>8. CallsOK' /\ Issuing' /\ IssuedNewer' /\ calls' \in [Task -> Seq(Frame)]
  BY <1>1, <1>2, <1>3, <1>5, <1>6, <1>7, FrameStep
<1>9. AuthTypeOK'
  <2>1. elsewhere' \subseteq 1 .. issued'
    BY <1>1, <1>3 DEF Issues, AuthTypeOK
  <2> QED
    BY <1>1, <1>3, <1>8, <2>1 DEF NewToken, AuthTypeOK
<1>10. Numbers' /\ Older'
  BY <1>1, <1>3 DEF NewToken, AuthInv, Numbers, Older, LaterExpired
<1> QED
  BY <1>8, <1>9, <1>10 DEF AuthInv

LEMMA TokenIssuedStep ==
  ASSUME AuthInv, NEW t \in Task, TokenIssued(t)
  PROVE  AuthInv'
<1>1. AuthTypeOK /\ Active(t) /\ At(t, "issued") /\ lock = t /\ lock' = NoTask
  BY DEF AuthInv, TokenIssued, At, Issuing
<1>2. Later /\ issued' = issued /\ expired' = expired /\ buried' = buried /\ buried \in Nat
  BY <1>1, SameServer DEF TokenIssued
<1>3. Top(t) \in Frame /\ FrameOK(Top(t), issued, buried, expired)
  BY <1>1, TopOK DEF AuthInv
<1>4. Top(t).token \in 1 .. issued /\ Top(t).token \in Token /\ buried < Top(t).token
  BY <1>1, <1>3 DEF FrameOK, AuthInv, IssuedNewer, At, Frame
<1>5. PICK g \in Frame : /\ g.step = "send" /\ g.token = Top(t).token
                         /\ g.try = Top(t).try /\ g.since = Top(t).since /\ Becomes(t, g)
  BY <1>1, GoesFrame DEF TokenIssued, Step
<1>6. FrameOK(g, issued, buried, expired)
  BY <1>2, <1>3, <1>4, <1>5, Naturals DEF FrameOK, Frame, Token
<1>7. CallsOK' /\ Issuing' /\ IssuedNewer' /\ calls' \in [Task -> Seq(Frame)]
  BY <1>1, <1>2, <1>5, <1>6, FrameStep
<1>8. mem' = Top(t).token /\ disk' \in {disk, Top(t).token} /\ invalidated' = FALSE
  BY DEF TokenIssued
<1>9. Older' /\ Numbers' /\ mem' \in Token /\ disk' \in Token
  BY <1>1, <1>2, <1>4, <1>8, Naturals DEF AuthInv, AuthTypeOK, Numbers, Older, Token
<1>10. AuthTypeOK'
  BY <1>1, <1>7, <1>8, <1>9, AuthAssumption DEF TokenIssued, serverVars, AuthTypeOK
<1> QED
  BY <1>7, <1>9, <1>10 DEF AuthInv

LEMMA InvalidatesStep ==
  ASSUME AuthInv, NEW t \in Task, Invalidates(t)
  PROVE  AuthInv'
<1>1. AuthTypeOK /\ Active(t) /\ At(t, "denied") /\ lock = NoTask /\ lock' = lock
  BY DEF AuthInv, Invalidates, At
<1>2. /\ Later /\ issued' = issued /\ expired' = expired /\ buried' = issued
      /\ mem' = 0 /\ invalidated' = TRUE /\ disk' \in {disk, 0} /\ issued \in Nat
  BY <1>1, Naturals DEF Invalidates, serverVars, Later
<1>3. Top(t).try = 1
  BY <1>1, TopOK DEF AuthInv, At, FrameOK
<1>4. PICK g \in Frame : g.step = "token" /\ g.try = 2 /\ g.since = issued /\ Becomes(t, g)
  BY <1>1, <1>3, RetriedFrame DEF Invalidates
<1>5. FrameOK(g, issued', buried', expired')
  BY <1>2, <1>4 DEF FrameOK
<1>6. CallsOK' /\ Active(t)' /\ Top(t)' = g
  BY <1>1, <1>2, <1>4, <1>5, Replaced DEF AuthInv
<1>7. calls' \in [Task -> Seq(Frame)] /\ \A u \in Task \ {t} : calls'[u] = calls[u]
  BY <1>1, <1>4, BecomesTyped
<1>8. \A u \in Task : ~At(u, "issuing")' /\ ~At(u, "issued")'
  <2> SUFFICES ASSUME NEW u \in Task PROVE ~At(u, "issuing")' /\ ~At(u, "issued")'
    OBVIOUS
  <2>1. CASE u = t
    BY <1>4, <1>6, <2>1 DEF At
  <2>2. CASE u # t
    <3>1. calls'[u] = calls[u] /\ lock # u
      BY <1>1, <1>7, <2>2, AuthAssumption
    <3> QED
      BY <3>1 DEF AuthInv, Issuing, At, Active, Top
  <2> QED
    BY <2>1, <2>2
<1>9. Issuing' /\ IssuedNewer'
  BY <1>8 DEF Issuing, IssuedNewer
<1>10. Numbers' /\ Older' /\ mem' \in Token /\ disk' \in Token /\ buried' \in 0 .. issued'
  BY <1>1, <1>2, AuthAssumption DEF AuthInv, AuthTypeOK, Numbers, Older, Token
<1>11. AuthTypeOK'
  BY <1>1, <1>2, <1>7, <1>10 DEF Invalidates, serverVars, AuthTypeOK
<1> QED
  BY <1>6, <1>9, <1>10, <1>11 DEF AuthInv

-------------------------------------------------------------------------------
\* The call of t is over, or a new one starts, or it is another; the rest stays.
LEMMA CallStep ==
  ASSUME AuthInv, NEW t \in Task, NEW c \in Seq(Frame), calls' = [calls EXCEPT ![t] = c],
         \A i \in DOMAIN c : FrameOK(c[i], issued, buried, expired), Waiting(c),
         c # <<>> => Head(c).step \notin {"issuing", "issued"},
         lock' = lock \/ (lock' = NoTask /\ lock = t),
         account' \in BOOLEAN,
         UNCHANGED <<mem, invalidated, disk, serverVars, buried>>
  PROVE  AuthInv'
<1>1. AuthTypeOK /\ calls \in [Task -> Seq(Frame)]
  BY DEF AuthInv, AuthTypeOK
<1>2. /\ calls' \in [Task -> Seq(Frame)] /\ calls'[t] = c
      /\ \A u \in Task \ {t} : calls'[u] = calls[u]
  BY <1>1
<1>3. Later /\ issued' = issued /\ expired' = expired /\ buried' = buried
  BY <1>1, SameServer
<1>4. CallsOK' /\ Issuing' /\ IssuedNewer'
  BY <1>2, <1>3, QuietStep
<1> QED
  BY <1>2, <1>4 DEF serverVars, AuthInv, AuthTypeOK, Numbers, Older, LaterExpired

\* A request starts with a frame that says nothing.
LEMMA FreshFrame ==
  ASSUME NEW r \in {"accounts", "call"}, NEW n, NEW b, NEW e
  PROVE  Fresh(r) \in Frame /\ Fresh(r).step = "token" /\ FrameOK(Fresh(r), n, b, e)
BY AuthAssumption DEF Fresh, Frame, Step, Token, FrameOK

LEMMA StartStep ==
  ASSUME AuthInv, NEW t \in Task, Start(t)
  PROVE  AuthInv'
<1> DEFINE f == Fresh("call")
           c == <<f>>
<1>1. f \in Frame /\ f.step = "token" /\ FrameOK(f, issued, buried, expired)
  BY FreshFrame
<1>2. calls' = [calls EXCEPT ![t] = c]
  BY DEF Start
<1> HIDE DEF f
<1>3. /\ c \in Seq(Frame) /\ Waiting(c) /\ Head(c).step \notin {"issuing", "issued"}
      /\ \A i \in DOMAIN c : FrameOK(c[i], issued, buried, expired)
  BY <1>1 DEF Waiting
<1> HIDE DEF c
<1>4. UNCHANGED <<mem, invalidated, lock, account, disk, serverVars, buried>>
  BY DEF Start
<1> QED
  BY <1>2, <1>3, <1>4, CallStep DEF AuthInv, AuthTypeOK

LEMMA AsksAccountStep ==
  ASSUME AuthInv, NEW t \in Task, AsksAccount(t)
  PROVE  AuthInv'
<1>1. AuthTypeOK /\ CallsOK /\ Active(t) /\ Top(t).step = "send"
  BY DEF AuthInv, AsksAccount, At
<1> DEFINE f == calls[t]
           g == Fresh("accounts")
           h == <<g>> \o f
<1>2. g \in Frame /\ g.step = "token" /\ FrameOK(g, issued, buried, expired)
  BY FreshFrame
<1>3. /\ f \in Seq(Frame) /\ f # <<>> /\ f[1].step = "send" /\ Waiting(f)
      /\ \A i \in DOMAIN f : FrameOK(f[i], issued, buried, expired)
  BY <1>1, FirstOf DEF CallsOK
<1>4. calls' = [calls EXCEPT ![t] = h]
  BY DEF AsksAccount
<1> HIDE DEF g
<1>5. /\ h \in Seq(Frame) /\ h # <<>> /\ Head(h) = g
      /\ Len(h) = Len(f) + 1 /\ h[1] = g
      /\ \A i \in 2 .. Len(h) : h[i] = f[i - 1]
  BY <1>2, <1>3, PushFrame
<1> HIDE DEF h, f
<1>6. \A i \in 2 .. Len(h) : h[i].step = "send" /\ FrameOK(h[i], issued, buried, expired)
  <2> SUFFICES ASSUME NEW i \in 2 .. Len(h)
               PROVE  h[i].step = "send" /\ FrameOK(h[i], issued, buried, expired)
    OBVIOUS
  <2>1. i - 1 \in 1 .. Len(f) /\ h[i] = f[i - 1] /\ (i = 2 \/ i - 1 \in 2 .. Len(f))
    BY <1>3, <1>5
  <2>2. f[i - 1].step = "send" /\ FrameOK(f[i - 1], issued, buried, expired)
    BY <1>3, <2>1 DEF Waiting
  <2> QED
    BY <2>1, <2>2
<1>7. Waiting(h) /\ \A i \in DOMAIN h : FrameOK(h[i], issued, buried, expired)
  <2>1. Waiting(h)
    BY <1>6 DEF Waiting
  <2>2. ASSUME NEW i \in DOMAIN h PROVE FrameOK(h[i], issued, buried, expired)
    <3>1. i = 1 \/ i \in 2 .. Len(h)
      BY <1>5
    <3> QED
      BY <3>1, <1>2, <1>5, <1>6
  <2> QED
    BY <2>1, <2>2
<1>8. UNCHANGED <<mem, invalidated, lock, account, disk, serverVars, buried>> /\ account \in BOOLEAN
  BY DEF AsksAccount, AuthInv, AuthTypeOK
<1> QED
  BY <1>2, <1>4, <1>5, <1>7, <1>8, CallStep

\* A call that is over.
LEMMA EndedCall ==
  <<>> \in Seq(Frame) /\ DOMAIN <<>> = {} /\ Waiting(<<>>)
BY DEF Waiting

LEMMA OverStep ==
  ASSUME AuthInv, NEW t \in Task, Over(t),
         lock' = lock \/ (lock' = NoTask /\ lock = t),
         UNCHANGED <<mem, invalidated, account, disk, serverVars, buried>>
  PROVE  AuthInv'
<1>1. calls' = [calls EXCEPT ![t] = <<>>] /\ account' \in BOOLEAN
  BY DEF Over, AuthInv, AuthTypeOK
<1> QED
  BY <1>1, EndedCall, CallStep

LEMMA GrantedStep ==
  ASSUME AuthInv, NEW t \in Task, Granted(t)
  PROVE  AuthInv'
<1>1. /\ AuthTypeOK /\ CallsOK /\ Active(t) /\ account' \in BOOLEAN
      /\ UNCHANGED <<mem, invalidated, lock, disk, serverVars, buried>>
  BY DEF AuthInv, AuthTypeOK, Granted, At
<1>2. CASE Top(t).request = "accounts"
  <2> DEFINE f == calls[t]
             h == Tail(f)
  <2>1. /\ f \in Seq(Frame) /\ f # <<>> /\ Waiting(f)
        /\ \A i \in DOMAIN f : FrameOK(f[i], issued, buried, expired)
    BY <1>1, FirstOf DEF CallsOK
  <2>2. /\ h \in Seq(Frame) /\ Len(h) = Len(f) - 1
        /\ \A i \in 1 .. Len(h) : h[i] = f[i + 1]
        /\ h # <<>> => Head(h) = f[2]
    BY <2>1, PopFrame
  <2>3. calls' = [calls EXCEPT ![t] = h]
    BY <1>2 DEF Granted
  <2> HIDE DEF f, h
  <2>4. \A i \in 1 .. Len(h) : /\ i + 1 \in 2 .. Len(f) /\ h[i].step = "send"
                               /\ FrameOK(h[i], issued, buried, expired)
    <3> SUFFICES ASSUME NEW i \in 1 .. Len(h)
                 PROVE  /\ i + 1 \in 2 .. Len(f) /\ h[i].step = "send"
                        /\ FrameOK(h[i], issued, buried, expired)
      OBVIOUS
    <3>1. i + 1 \in 2 .. Len(f) /\ i + 1 \in DOMAIN f /\ h[i] = f[i + 1]
      BY <2>1, <2>2
    <3> QED
      BY <2>1, <3>1 DEF Waiting
  <2>5. /\ \A i \in DOMAIN h : FrameOK(h[i], issued, buried, expired)
        /\ Waiting(h)
        /\ h # <<>> => Head(h).step = "send"
    BY <2>2, <2>4 DEF Waiting
  <2> QED
    BY <1>1, <2>2, <2>3, <2>5, CallStep
<1>3. CASE Top(t).request # "accounts"
  BY <1>1, <1>3, OverStep DEF Granted
<1> QED
  BY <1>2, <1>3

LEMMA FailsStep ==
  ASSUME AuthInv, NEW t \in Task, Fails(t)
  PROVE  AuthInv'
BY OverStep DEF Fails, Unlocked

LEMMA DeniedStep ==
  ASSUME AuthInv, NEW t \in Task, Denied(t)
  PROVE  AuthInv'
<1>1. /\ AuthTypeOK /\ Active(t) /\ Top(t).step = "send"
      /\ UNCHANGED <<mem, invalidated, lock, account, disk, serverVars, buried>>
  BY DEF AuthInv, Denied, At
<1>2. Later /\ issued' = issued /\ expired' = expired /\ buried' = buried
  BY <1>1, SameServer
<1>3. Top(t) \in Frame /\ FrameOK(Top(t), issued, buried, expired)
  BY <1>1, TopOK DEF AuthInv
<1>4. CASE Top(t).try = 1
  <2>1. PICK g \in Frame : /\ g.step = "denied" /\ g.token = Top(t).token
                           /\ g.try = Top(t).try /\ g.since = Top(t).since /\ Becomes(t, g)
    BY <1>1, <1>4, GoesFrame DEF Denied, Step
  <2>2. FrameOK(g, issued, buried, expired)
    BY <1>1, <1>3, <1>4, <2>1 DEF FrameOK
  <2>3. CallsOK' /\ Issuing' /\ IssuedNewer' /\ calls' \in [Task -> Seq(Frame)]
    BY <1>1, <1>2, <2>1, <2>2, FrameStep
  <2> QED
    BY <1>1, <2>3 DEF serverVars, AuthInv, AuthTypeOK, Numbers, Older, LaterExpired
<1>5. CASE Top(t).try # 1
  BY <1>1, <1>5, OverStep DEF Denied
<1> QED
  BY <1>4, <1>5

-------------------------------------------------------------------------------
\* A step that leaves the calls, the lock and what was invalidated.
LEMMA SameCalls ==
  ASSUME AuthInv, Later, lock' = lock, buried' = buried, calls' = calls
  PROVE  CallsOK' /\ Issuing' /\ IssuedNewer'
<1>1. CallsOK'
  <2> SUFFICES ASSUME NEW t \in Task
               PROVE  /\ \A i \in DOMAIN calls[t] : FrameOK(calls[t][i], issued', buried', expired')
                      /\ Waiting(calls[t])
    BY DEF CallsOK
  <2>1. ASSUME NEW i \in DOMAIN calls[t] PROVE FrameOK(calls[t][i], issued', buried', expired')
    <3>1. calls[t][i] \in Frame /\ FrameOK(calls[t][i], issued, buried, expired)
      BY DEF AuthInv, AuthTypeOK, CallsOK
    <3> QED
      BY <3>1, FrameStays
  <2> QED
    BY <2>1 DEF AuthInv, CallsOK
<1>2. Issuing' /\ IssuedNewer'
  BY DEF AuthInv, Issuing, IssuedNewer, At, Active, Top
<1> QED
  BY <1>1, <1>2

LEMMA IssuesElsewhereStep ==
  ASSUME AuthInv, IssuesElsewhere
  PROVE  AuthInv'
<1>1. AuthTypeOK /\ NewToken /\ lock' = lock /\ calls' = calls
  BY DEF AuthInv, IssuesElsewhere, NewToken
<1>2. /\ Later /\ issued' = issued + 1 /\ issued' \in Token /\ issued + 1 \in 1 .. issued'
      /\ 1 .. issued \subseteq 1 .. issued' /\ 0 .. issued \subseteq 0 .. issued'
      /\ honoured' \subseteq 1 .. issued' /\ expired' \subseteq 1 .. issued'
      /\ buried' = buried /\ buried' \in 0 .. issued'
  BY <1>1, NewTokenTyped
<1>3. CallsOK' /\ Issuing' /\ IssuedNewer'
  BY <1>1, <1>2, SameCalls
<1>4. AuthTypeOK'
  <2>1. elsewhere' \subseteq 1 .. issued'
    BY <1>1, <1>2 DEF IssuesElsewhere, AuthTypeOK
  <2> QED
    BY <1>1, <1>2, <2>1 DEF NewToken, AuthTypeOK
<1>5. Numbers' /\ Older'
  BY <1>1, <1>2 DEF NewToken, AuthInv, Numbers, Older, LaterExpired
<1> QED
  BY <1>3, <1>4, <1>5 DEF AuthInv

LEMMA KillsStep ==
  ASSUME AuthInv, Kills
  PROVE  AuthInv'
<1>1. AuthTypeOK /\ lock' = lock /\ calls' = calls /\ buried' = buried /\ Later
  BY Naturals DEF AuthInv, Kills, Later
<1>2. CallsOK' /\ Issuing' /\ IssuedNewer'
  BY <1>1, SameCalls
<1> QED
  BY <1>1, <1>2 DEF Kills, AuthInv, AuthTypeOK, Numbers, Older, LaterExpired

LEMMA WritesElsewhereStep ==
  ASSUME AuthInv, WritesElsewhere
  PROVE  AuthInv'
<1>1. AuthTypeOK /\ lock' = lock /\ calls' = calls /\ buried' = buried /\ Later
  BY Naturals DEF AuthInv, WritesElsewhere, Later
<1>2. CallsOK' /\ Issuing' /\ IssuedNewer'
  BY <1>1, SameCalls
<1>3. /\ disk' \in 0 .. issued /\ disk' \in Token /\ elsewhere' \subseteq 1 .. issued
      /\ issued' = issued
  BY <1>1, AuthAssumption DEF AuthTypeOK, WritesElsewhere, Token
<1> QED
  BY <1>1, <1>2, <1>3
  DEF WritesElsewhere, AuthInv, AuthTypeOK, Numbers, Older, LaterExpired

LEMMA ExpiresStep ==
  ASSUME AuthInv, NEW n \in Token, Expires(n)
  PROVE  AuthInv'
<1>1. /\ AuthTypeOK /\ lock' = lock /\ calls' = calls /\ buried' = buried /\ Later
      /\ expired \subseteq expired' /\ expired' \subseteq 1 .. issued
  BY Naturals DEF AuthInv, AuthTypeOK, Expires, Later
<1>2. CallsOK' /\ Issuing' /\ IssuedNewer'
  BY <1>1, SameCalls
<1>3. Older'
  BY <1>1 DEF Expires, AuthInv, Older, LaterExpired
<1> QED
  BY <1>1, <1>2, <1>3 DEF Expires, AuthInv, AuthTypeOK, Numbers

\* A process that has no calls, and has invalidated nothing.
LEMMA NoCalls ==
  ASSUME calls = [t \in Task |-> <<>>]
  PROVE  calls \in [Task -> Seq(Frame)] /\ CallsOK /\ Issuing /\ IssuedNewer
<1>1. \A t \in Task : calls[t] = <<>> /\ ~Active(t)
  BY DEF Active
<1>2. calls \in [Task -> Seq(Frame)]
  BY EndedCall
<1> QED
  BY <1>1, <1>2, EndedCall DEF CallsOK, Issuing, IssuedNewer, At

LEMMA RestartStep ==
  ASSUME AuthInv, Restart
  PROVE  AuthInv'
<1>1. (calls \in [Task -> Seq(Frame)] /\ CallsOK /\ Issuing /\ IssuedNewer)'
  <2>1. calls' = [t \in Task |-> <<>>]
    BY DEF Restart
  <2>2. \A t \in Task : calls'[t] = <<>> /\ ~Active(t)'
    BY <2>1 DEF Active
  <2> QED
    BY <2>1, <2>2, EndedCall DEF CallsOK, Issuing, IssuedNewer, At
<1>2. AuthTypeOK'
  <2>1. /\ mem' \in Token /\ account' \in BOOLEAN /\ issued' = issued /\ buried' \in 0 .. issued'
    BY Naturals, AuthAssumption DEF Token, Restart, serverVars, AuthInv
  <2> QED
    BY <1>1, <2>1 DEF Restart, serverVars, AuthInv, AuthTypeOK
<1> QED
  BY <1>1, <1>2, Naturals DEF Restart, serverVars, AuthInv, Numbers, Older

-------------------------------------------------------------------------------
LEMMA AuthInitially == AuthInit => AuthInv
<1> SUFFICES ASSUME AuthInit PROVE AuthInv
  OBVIOUS
<1>1. calls \in [Task -> Seq(Frame)] /\ CallsOK /\ Issuing /\ IssuedNewer
  BY NoCalls DEF AuthInit
<1>2. AuthTypeOK
  <2>1. 0 \in Token /\ 0 \in 0 .. 0 /\ account \in BOOLEAN
    BY AuthAssumption DEF AuthInit, Token
  <2> QED
    BY <1>1, <2>1 DEF AuthInit, AuthTypeOK
<1> QED
  BY <1>1, <1>2 DEF AuthInit, AuthInv, Numbers, Older

LEMMA AuthStutters ==
  ASSUME AuthInv, UNCHANGED authVars
  PROVE  AuthInv'
<1>1. AuthTypeOK /\ lock' = lock /\ calls' = calls /\ buried' = buried /\ Later
  BY Naturals DEF AuthInv, authVars, Later
<1>2. CallsOK' /\ Issuing' /\ IssuedNewer'
  BY <1>1, SameCalls
<1> QED
  BY <1>2 DEF authVars, AuthInv, AuthTypeOK, Numbers, Older, LaterExpired

LEMMA AuthStep == AuthInv /\ [AuthNext]_authVars => AuthInv'
<1> SUFFICES ASSUME AuthInv, [AuthNext]_authVars PROVE AuthInv'
  OBVIOUS
<1>1. ASSUME NEW t \in Task, Start(t) \/ TokenLocked(t) \/ Invalidates(t) \/ Fails(t)
      PROVE  AuthInv'
  BY <1>1, StartStep, TokenLockedStep, InvalidatesStep, FailsStep
<1>2. ASSUME NEW t \in Task, Runs(t)
      PROVE  AuthInv'
  BY <1>2, TokenInMemoryStep, IssuesStep, TokenIssuedStep, AsksAccountStep, GrantedStep,
     DeniedStep
  DEF Runs
<1>3. CASE UNCHANGED authVars
  BY <1>3, AuthStutters
<1> QED
  BY <1>1, <1>2, <1>3, RestartStep, IssuesElsewhereStep, WritesElsewhereStep, KillsStep,
     ExpiresStep
  DEF AuthNext

\* In every state the parts of the token cache have their types: what is in memory, in the
\* file and under way are tokens the server has issued or none.  (auth.py, TossAuth)
THEOREM AuthTypeCorrect == AuthSpec => []AuthTypeOK
<1>1. AuthInv => AuthTypeOK
  BY DEF AuthInv
<1> QED
  BY <1>1, AuthInitially, AuthStep, PTL DEF AuthSpec

\* No token issued before the last invalidate() comes back to memory while the tokens issued
\* since live, whatever the cache file, the other processes and the server do.
\* (invalidate, token, _issue_token)
THEOREM DeadTokensStayBuried == AuthSpec => []DeadStaysBuried
<1>1. AuthInv => DeadStaysBuried
  BY Naturals DEF AuthInv, Older, Numbers, DeadStaysBuried
<1> QED
  BY <1>1, AuthInitially, AuthStep, PTL DEF AuthSpec

\* The retry after a 401 goes out with a token issued after the invalidate() of its request,
\* while the tokens issued since live, for every server: one that drops the older tokens when
\* it issues a new one, one that keeps them, and one that drops them by itself.
\* (request_with_reauth, invalidate, token)
THEOREM RetriesAreFresh == AuthSpec => []RetriesFresh
<1>1. AuthInv => RetriesFresh
  <2> SUFFICES ASSUME AuthInv, NEW t \in Task, At(t, "send"), Top(t).try = 2
               PROVE  Top(t).token > Top(t).since \/ LaterExpired(Top(t).since)
    BY DEF RetriesFresh
  <2>1. AuthTypeOK /\ Active(t) /\ Top(t).step = "send"
    BY DEF AuthInv, At
  <2> QED
    BY <2>1, TopOK DEF AuthInv, FrameOK, LaterExpired
<1> QED
  BY <1>1, AuthInitially, AuthStep, PTL DEF AuthSpec
===============================================================================
