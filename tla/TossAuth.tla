------------------------------- MODULE TossAuth -------------------------------
(***************************************************************************)
(* The access token of one process: how its tasks find it, replace it when *)
(* the server does not honour it any more, and what a request sees of      *)
(* that.  Other processes may use the same app key and cache file.         *)
(*                                                                         *)
(* A call is one request of TossRest or TossBroker (request_with_reauth).  *)
(* Before its first request a client without a configured account number   *)
(* makes another one, GET /accounts, with a token and a retry of its own:  *)
(* a call is a stack of frames, the running one first.  A step is what a   *)
(* task does from one await to the next.                                   *)
(*                                                                         *)
(* Tokens are numbered in the order they are issued; each has a time to    *)
(* live of its own.  Token 0 is no token.                                  *)
(***************************************************************************)
EXTENDS Integers, Sequences, FiniteSets

CONSTANTS
  Task,
  NoTask,      \* nobody holds the lock
  Configured,  \* the config has the account number
  MaxTokens,   \* bound: tokens the server issues; then it answers 429
  MaxExpired   \* bound: tokens that reach their expires_at

ASSUME AuthAssumption ==
  /\ NoTask \notin Task
  /\ Configured \in BOOLEAN
  /\ MaxTokens \in Nat /\ MaxExpired \in Nat

VARIABLES
  mem,          \* _token
  invalidated,  \* _invalidated
  lock,         \* the holder of _issue_lock
  account,      \* the account number is known (_account_seq)
  disk,         \* the token in the cache file
  issued,       \* how many tokens the server has issued
  honoured,     \* the tokens it honours
  expired,      \* the tokens that are past expires_at
  elsewhere,    \* tokens issued to other processes that they have not written to the file
  calls,        \* the call of each task
  buried        \* history: the last token issued when the process last invalidated

authVars == <<mem, invalidated, lock, account, disk, issued, honoured, expired,
              elsewhere, calls, buried>>

serverVars == <<issued, honoured, expired, elsewhere>>

Token == 0 .. MaxTokens

Step == {"token",    \* about to ask auth_headers() for a token
         "issuing",  \* holds the lock, the token request is under way
         "issued",   \* its answer is on the way back
         "send",     \* has the headers: send() is under way
         "denied"}   \* got a 401 invalid-token

\* since (history): the last token issued when the request invalidated after its first 401.
Frame == [request : {"accounts", "call"}, try : 1 .. 2, step : Step, token : Token,
          since : Token]

AuthTypeOK ==
  /\ mem \in Token /\ disk \in Token
  /\ invalidated \in BOOLEAN /\ account \in BOOLEAN
  /\ lock \in Task \cup {NoTask}
  /\ issued \in Token /\ honoured \subseteq 1 .. issued /\ expired \subseteq 1 .. issued
  /\ elsewhere \subseteq 1 .. issued
  /\ calls \in [Task -> Seq(Frame)]
  /\ buried \in 0 .. issued

Usable(n) == n # 0 /\ n \notin expired

Active(t) == calls[t] # <<>>
Top(t)    == Head(calls[t])
At(t, step) == Active(t) /\ Top(t).step = step

Fresh(request) == [request |-> request, try |-> 1, step |-> "token", token |-> 0, since |-> 0]

\* The running frame of t goes on to a step, and with a token.
Goes(t, step) == calls' = [calls EXCEPT ![t][1].step = step]
GoesWith(t, step, n) == calls' = [calls EXCEPT ![t][1].step = step, ![t][1].token = n]

\* The call is over, in whatever frame it was.
Over(t) == calls' = [calls EXCEPT ![t] = <<>>]

-------------------------------------------------------------------------------
\* A caller of TossRest or TossBroker.
Start(t) ==
  /\ ~Active(t)
  /\ calls' = [calls EXCEPT ![t] = <<Fresh("call")>>]
  /\ UNCHANGED <<mem, invalidated, lock, account, disk, serverVars, buried>>

\* token() that finds the token in memory, before it asks for the lock.
TokenInMemory(t) ==
  /\ At(t, "token") /\ Usable(mem)
  /\ GoesWith(t, "send", mem)
  /\ UNCHANGED <<mem, invalidated, lock, account, disk, serverVars, buried>>

\* (mutant) the flag of invalidate() not looked at
ReadsDiskAlways(n) == n = disk /\ Usable(n)

\* _read_disk_cache() gives token n.
ReadsDisk(n) == ~invalidated /\ n = disk /\ Usable(n)

\* token() under the lock: memory again, the file unless the process has just invalidated,
\* else a new token.  A file that is being written, or cannot be read, is no file.
TokenLocked(t) ==
  /\ At(t, "token") /\ ~Usable(mem) /\ lock = NoTask
  /\ \/ \E n \in Token :
          /\ ReadsDisk(n)
          /\ mem' = n
          /\ GoesWith(t, "send", n)
          /\ UNCHANGED lock
     \/ /\ lock' = t
        /\ Goes(t, "issuing")
        /\ UNCHANGED mem
  /\ UNCHANGED <<invalidated, account, disk, serverVars, buried>>

\* _issue_token() gets its answer: memory, the flag, the file (if it can be written).
TokenIssued(t) ==
  /\ At(t, "issued")
  /\ mem' = Top(t).token
  /\ invalidated' = FALSE
  /\ disk' \in {disk, Top(t).token}
  /\ lock' = NoTask
  /\ Goes(t, "send")
  /\ UNCHANGED <<account, serverVars, buried>>

\* send() asks for the account number first, in a request of its own; its headers stay
\* what they were before it.
NeedsAccount(t) == Top(t).request = "call" /\ ~account

AsksAccount(t) ==
  /\ At(t, "send") /\ NeedsAccount(t)
  /\ calls' = [calls EXCEPT ![t] = <<Fresh("accounts")>> \o @]
  /\ UNCHANGED <<mem, invalidated, lock, account, disk, serverVars, buried>>

\* The server honours the token: the account number is cached, or the call is done.
Granted(t) ==
  /\ At(t, "send") /\ ~NeedsAccount(t) /\ Top(t).token \in honoured
  /\ IF Top(t).request = "accounts"
     THEN account' = TRUE /\ calls' = [calls EXCEPT ![t] = Tail(@)]
     ELSE Over(t) /\ UNCHANGED account
  /\ UNCHANGED <<mem, invalidated, lock, disk, serverVars, buried>>

\* (mutant) retried without end
DeniedForever(t) ==
  /\ At(t, "send") /\ ~NeedsAccount(t) /\ Top(t).token \notin honoured
  /\ Goes(t, "denied")
  /\ UNCHANGED <<mem, invalidated, lock, account, disk, serverVars, buried>>

\* 401 invalid-token: one retry, then the error is raised.
Denied(t) ==
  /\ At(t, "send") /\ ~NeedsAccount(t) /\ Top(t).token \notin honoured
  /\ IF Top(t).try = 1
     THEN Goes(t, "denied")
     ELSE Over(t)
  /\ UNCHANGED <<mem, invalidated, lock, account, disk, serverVars, buried>>

\* (mutant) the retry sent with the headers of the first request
RetriedWithOldHeaders(t) ==
  calls' = [calls EXCEPT ![t][1] =
              [Top(t) EXCEPT !.try = @ + 1, !.step = "send", !.since = issued]]

Retried(t) ==
  calls' = [calls EXCEPT ![t][1] =
              [Top(t) EXCEPT !.try = @ + 1, !.step = "token", !.token = 0, !.since = issued]]

\* invalidate(): whatever is in memory and in the file now goes, if it can be removed.
Invalidates(t) ==
  /\ At(t, "denied") /\ lock = NoTask
  /\ mem' = 0
  /\ invalidated' = TRUE
  /\ disk' \in {disk, 0}
  /\ buried' = issued
  /\ Retried(t)
  /\ UNCHANGED <<lock, account, serverVars>>

\* (mutant) the lock kept by a task whose token request failed
UnlockedKept(t) == lock

Unlocked(t) == IF lock = t THEN NoTask ELSE lock

\* A request or an answer is lost, times out or is any other error, or the task is
\* cancelled: the call ends and the lock is given back.
Fails(t) ==
  /\ Active(t)
  /\ lock' = Unlocked(t)
  /\ Over(t)
  /\ UNCHANGED <<mem, invalidated, account, disk, serverVars, buried>>

\* The process ends and a new one starts.
Restart ==
  /\ mem # 0 \/ \E t \in Task : Active(t)
  /\ mem' = 0 /\ invalidated' = FALSE /\ lock' = NoTask /\ account' = Configured
  /\ calls' = [t \in Task |-> <<>>]
  /\ buried' = 0
  /\ UNCHANGED <<disk, serverVars>>

-------------------------------------------------------------------------------
\* The server (external) issues a token, which may put an end to the older ones.
NewToken ==
  /\ issued < MaxTokens
  /\ issued' = issued + 1
  /\ \E old \in {honoured, {}} : honoured' = old \cup {issued + 1}
  /\ UNCHANGED <<mem, invalidated, lock, account, disk, expired, buried>>

Issues(t) == At(t, "issuing") /\ NewToken /\ GoesWith(t, "issued", issued + 1) /\ UNCHANGED elsewhere

\* Another process gets a token, writes one of its own to the file, or removes the file.
IssuesElsewhere ==
  /\ NewToken
  /\ elsewhere' = elsewhere \cup {issued + 1}
  /\ UNCHANGED calls

WritesElsewhere ==
  /\ disk' \in elsewhere \cup {0} /\ disk' # disk
  /\ elsewhere' = elsewhere \ {disk'}
  /\ UNCHANGED <<mem, invalidated, lock, account, issued, honoured, expired, calls,
                 buried>>

\* The server drops its tokens by itself (a login in the app).
Kills ==
  /\ honoured # {}
  /\ honoured' = {}
  /\ UNCHANGED <<mem, invalidated, lock, account, disk, issued, expired, elsewhere, calls,
                 buried>>

\* A token reaches its expires_at.
Expires(n) ==
  /\ n \in 1 .. issued \ expired /\ Cardinality(expired) < MaxExpired
  /\ expired' = expired \cup {n}
  /\ UNCHANGED <<mem, invalidated, lock, account, disk, issued, honoured, elsewhere,
                 calls, buried>>

-------------------------------------------------------------------------------
AuthInit ==
  /\ mem = 0 /\ invalidated = FALSE /\ lock = NoTask /\ account = Configured
  /\ disk = 0
  /\ issued = 0 /\ honoured = {} /\ expired = {} /\ elsewhere = {}
  /\ calls = [t \in Task |-> <<>>]
  /\ buried = 0

\* What moves a call on by itself.
Runs(t) ==
  \/ TokenInMemory(t) \/ Issues(t) \/ TokenIssued(t)
  \/ AsksAccount(t) \/ Granted(t) \/ Denied(t)

AuthNext ==
  \/ \E t \in Task : Start(t) \/ Runs(t) \/ TokenLocked(t) \/ Invalidates(t) \/ Fails(t)
  \/ Restart
  \/ IssuesElsewhere \/ WritesElsewhere
  \/ Kills
  \/ \E n \in Token : Expires(n)

AuthSpec == AuthInit /\ [][AuthNext]_authVars

\* httpx bounds every wait, so a request that gets no answer fails; asyncio.Lock is handed
\* to its waiters in order.  Nothing makes a call start or be cancelled, a token expire or
\* be dropped, or a process restart.
AuthFairness ==
  \A t \in Task :
    /\ WF_authVars(Runs(t) \/ (At(t, "issuing") /\ Fails(t)))
    /\ SF_authVars(TokenLocked(t) \/ Invalidates(t))

FairAuthSpec == AuthSpec /\ AuthFairness

-------------------------------------------------------------------------------
\* A token issued since the last 401 of process or request has reached its expires_at.
LaterExpired(since) == \E n \in expired : n > since

\* No token issued before the last invalidate() comes back to the memory of the process,
\* also when the file could be neither removed nor overwritten and other processes write
\* theirs, as long as the tokens issued since live.  (invalidate, token, _issue_token)
DeadStaysBuried == mem \in 1 .. buried => LaterExpired(buried)

\* The retry after a 401 goes out with a token issued after the invalidate() it made, not
\* with its old headers and not with what the memory, the file, a request inside it or
\* another task had before, as long as the tokens issued since live; whether the server
\* keeps the older tokens beside a new one or not.  (request_with_reauth, token)
RetriesFresh ==
  \A t \in Task : At(t, "send") /\ Top(t).try = 2 =>
    Top(t).token > Top(t).since \/ LaterExpired(Top(t).since)

\* Every call ends: no task waits forever for the lock of one that failed, was cancelled
\* or makes a request inside its request.  (_issue_lock)
CallEnds(t) == Active(t) ~> ~Active(t)
===============================================================================
