------------------------------ MODULE TokenCache ------------------------------
(***************************************************************************)
(* The token of the CI system's gateway, services/token_manager.go: one    *)
(* token for all handlers, read under a read lock and fetched anew under   *)
(* the write lock, where its age is looked at a second time.               *)
(*                                                                         *)
(* The second look uses the time read before the first (now, line 44), so  *)
(* that a goroutine which waited long judges the token by an old clock.    *)
(* No step keeps the read lock while it waits, and the write lock is held  *)
(* by the caller that fetches.                                             *)
(***************************************************************************)
EXTENDS Integers

CONSTANTS
  Callers,   \* the goroutines that need a token
  Life,      \* how long a token lives: one hour
  Margin,    \* how long before its end it is fetched anew: five minutes
  Slow,      \* the timeout of a request: 30 seconds
  MaxTime    \* bound: the clock

ASSUME TokenAssumption ==
  Life \in Nat /\ Margin \in Nat /\ Slow \in Nat /\ Margin < Life

VARIABLES
  clock,
  token,       \* until when the gateway honours the cached token, 0 if there is none
  expiresAt,   \* until when the cache believes it to live
  caller,      \* per goroutine its step and the time it has read
  fetch        \* the request under way: when it began, and the token it was given

tokenVars == <<clock, token, expiresAt, caller, fetch>>

(* left: of a token handed out, how long it would still live.              *)
Caller == [pc: {"idle", "waiting", "fetching", "done"}, now: Nat, left: Int]
Idle == [pc |-> "idle", now |-> 0, left |-> 0]

TCInit ==
  /\ clock = 1 /\ token = 0 /\ expiresAt = 0
  /\ caller = [c \in Callers |-> Idle] /\ fetch = [began |-> 0, token |-> 0]

Unlocked == \A c \in Callers : caller[c].pc # "fetching"
(* Mutant: a token is used until the cache believes it to end.             *)
FreshToEnd(t) == token # 0 /\ t < expiresAt
Fresh(t) == token # 0 /\ t + Margin < expiresAt
Handed(t, ends) == [pc |-> "done", now |-> t, left |-> ends - clock]

(* The first look, under the read lock.                                    *)
GetToken(c) ==
  /\ caller[c].pc = "idle" /\ Unlocked
  /\ caller' = [caller EXCEPT ![c] = IF Fresh(clock) THEN Handed(clock, token)
                                     ELSE [@ EXCEPT !.pc = "waiting", !.now = clock]]
  /\ UNCHANGED <<clock, token, expiresAt, fetch>>

(* The second look, under the write lock, and the request.                 *)
Fetch(c) ==
  /\ caller' = [caller EXCEPT ![c].pc = "fetching"]
  /\ fetch' = [began |-> clock, token |-> 0]
  /\ UNCHANGED <<clock, token, expiresAt>>
(* Mutant: whoever has waited fetches.                                     *)
LockOnly(c) == caller[c].pc = "waiting" /\ Unlocked /\ Fetch(c)
Lock(c) ==
  /\ caller[c].pc = "waiting" /\ Unlocked
  /\ \/ ~Fresh(caller[c].now) /\ Fetch(c)
     \/ /\ Fresh(caller[c].now)
        /\ caller' = [caller EXCEPT ![c] = Handed(@.now, token)]
        /\ UNCHANGED <<clock, token, expiresAt, fetch>>

(* The gateway issues a token some time before its answer arrives.         *)
Issue ==
  /\ ~Unlocked /\ fetch.token = 0
  /\ fetch' = [fetch EXCEPT !.token = clock + Life]
  /\ UNCHANGED <<clock, token, expiresAt, caller>>
Fetched(c) ==
  /\ caller[c].pc = "fetching" /\ fetch.token # 0
  /\ token' = fetch.token /\ expiresAt' = clock + Life
  /\ caller' = [caller EXCEPT ![c] = Handed(@.now, fetch.token)]
  /\ UNCHANGED <<clock, fetch>>
(* A refusal, an unreadable answer, a timeout: the cache stays as it was.  *)
FetchFails(c) ==
  /\ caller[c].pc = "fetching" /\ caller' = [caller EXCEPT ![c] = Idle]
  /\ UNCHANGED <<clock, token, expiresAt, fetch>>
(* The handler has made its calls with the token.                          *)
Return(c) ==
  /\ caller[c].pc = "done" /\ caller' = [caller EXCEPT ![c] = Idle]
  /\ UNCHANGED <<clock, token, expiresAt, fetch>>

ResetTokenCache ==
  /\ Unlocked /\ token' = 0 /\ expiresAt' = 0 /\ UNCHANGED <<clock, caller, fetch>>

(* A request ends by its timeout, and a free lock goes to a goroutine that *)
(* waits for it at once.                                                   *)
Tick ==
  /\ clock < MaxTime /\ clock' = clock + 1
  /\ IF Unlocked THEN \A c \in Callers : caller[c].pc # "waiting"
     ELSE clock < fetch.began + Slow
  /\ UNCHANGED <<token, expiresAt, caller, fetch>>

TCNext ==
  \/ \E c \in Callers : GetToken(c) \/ Lock(c) \/ Fetched(c) \/ FetchFails(c) \/ Return(c)
  \/ Issue \/ ResetTokenCache \/ Tick

TCSpec == TCInit /\ [][TCNext]_tokenVars

-----------------------------------------------------------------------------
(* Properties *)

(* The values of the variables; there is a token when there is an end.     *)
TCTypeOK ==
  /\ clock \in Nat /\ token \in Nat /\ expiresAt \in Nat /\ (token = 0 <=> expiresAt = 0)
  /\ caller \in [Callers -> Caller]
  /\ fetch \in [began: Nat, token: Nat]

(* A token handed out lives for the margin, but for the time its request   *)
(* took, however long the caller has waited for the lock.                  *)
HandedFresh == \A c \in Callers : caller[c].pc = "done" => caller[c].left + Slow > Margin

(* A token is fetched by one caller at a time, and only while the cache    *)
(* has none that is fresh now: of those that waited for one fetch only     *)
(* those fetch again that find it failed.                                  *)
OneFetch ==
  \A c, d \in Callers :
    caller[c].pc = "fetching" => ~Fresh(clock) /\ (caller[d].pc = "fetching" => c = d)
=============================================================================
