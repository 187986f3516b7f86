------------------------------- MODULE Access -------------------------------
(***************************************************************************)
(* Who may manage a store: the guards in front of every management route   *)
(* (middleware/auth.go) and the memberships cache behind them              *)
(* (authz/authz.go).  Six services carry the same copy of it.              *)
(*                                                                         *)
(* An access token is verified locally.  The caller's role in the tenant   *)
(* comes from user-management and is kept for 30 seconds per token.  The   *)
(* cache is read, user-management is asked and the answer is stored in     *)
(* three steps, with the mutex released in between: requests with one      *)
(* token overtake each other, and the role may change at any moment.       *)
(***************************************************************************)
EXTENDS Integers

CONSTANTS
  Ttl,         \* Client.ttl: how long an answer is kept
  Timeout,     \* http.Client.Timeout, by which an answer is there and stored
  Admitting,     \* roles the route admits
  Standing,    \* what user-management may say of the caller: roles, NotMember, SessionOver
  NotMember, SessionOver,
  Visit,       \* requests with the token that may be in progress at the same time
  MaxMoment,   \* bound: how far time goes
  NoEntry, NoVisit

ASSUME AccessAssumption ==
  /\ Ttl \in Nat \ {0} /\ Timeout \in Nat /\ MaxMoment \in Nat
  /\ Admitting \subseteq Standing \ {NotMember, SessionOver}
  /\ NoVisit \notin [step : {"cache", "serve"}]

VARIABLES
  moment,      \* the time
  standing,    \* what user-management would say of the caller at this moment
  entitled,    \* the last moment at which that was a role the route admits
  entry,       \* the cache entry of the token: role and expiry
  visit,       \* visit[r]: the step of request r, and the role it has been told
  admitted     \* requests the guard has let through, by their role

accessVars == <<moment, standing, entitled, entry, visit, admitted>>

Moment == 0 .. MaxMoment

Entry == [role : Standing \ {SessionOver}, expiresAt : 0 .. MaxMoment + Ttl]

Visiting ==
  [step : {"cache", "serve"}]
    \cup [step : {"fetch"}, until : 0 .. MaxMoment + Timeout]
    \cup [step : {"store"}, until : 0 .. MaxMoment + Timeout, role : Standing \ {SessionOver}]

LongAgo == -(Ttl + Timeout)

AccessInit ==
  /\ moment = 0
  /\ standing \in Standing
  /\ entitled = IF standing \in Admitting THEN 0 ELSE LongAgo
  /\ entry = NoEntry
  /\ visit = [r \in Visit |-> NoVisit]
  /\ admitted = {}

-----------------------------------------------------------------------------
\* Authenticated: without a token that verifies the answer is 401, and nothing happens.
Authenticated(r) ==
  /\ visit[r] = NoVisit
  /\ visit' = [visit EXCEPT ![r] = [step |-> "cache"]]
  /\ UNCHANGED <<moment, standing, entitled, entry, admitted>>

\* A super admin's token needs no role: RequireTenantRole lets it through.
SuperAdmin(r) ==
  /\ visit[r] = NoVisit
  /\ visit' = [visit EXCEPT ![r] = [step |-> "serve"]]
  /\ UNCHANGED <<moment, standing, entitled, entry, admitted>>

Leaves(r) ==
  /\ visit' = [visit EXCEPT ![r] = NoVisit]
  /\ admitted' = admitted \ {r}

\* RequireTenantRole: 403 for who is no member or has another role.
RequireTenantRole(r, role) ==
  IF role \in Admitting
    THEN /\ visit' = [visit EXCEPT ![r] = [step |-> "serve"]]
         /\ admitted' = admitted \cup {r}
    ELSE Leaves(r)

Fresh == entry # NoEntry /\ moment < entry.expiresAt

EntryRenewed == [entry EXCEPT !.expiresAt = moment + Ttl]

\* The entry after a hit: as it was.
EntryKept == entry

\* memberships, first half: a hit decides, a miss asks user-management.
LookUp(r) ==
  /\ visit[r] = [step |-> "cache"]
  /\ IF Fresh
       THEN /\ RequireTenantRole(r, entry.role)
            /\ entry' = EntryKept
       ELSE /\ visit' = [visit EXCEPT ![r] = [step |-> "fetch", until |-> moment + Timeout]]
            /\ UNCHANGED <<entry, admitted>>
  /\ UNCHANGED <<moment, standing, entitled>>

\* fetchMemberships: 401 if the session is over, 502 if there is no answer in time.
FetchMemberships(r) ==
  /\ visit[r] # NoVisit
  /\ visit[r].step = "fetch"
  /\ \/ /\ standing # SessionOver
        /\ visit' = [visit EXCEPT ![r] = [step |-> "store", until |-> visit[r].until,
                                          role |-> standing]]
        /\ UNCHANGED admitted
     \/ Leaves(r)
  /\ UNCHANGED <<moment, standing, entitled, entry>>

\* memberships, second half: the answer is stored over whatever is there by now.
Store(r) ==
  /\ visit[r] # NoVisit
  /\ visit[r].step = "store"
  /\ entry' = [role |-> visit[r].role, expiresAt |-> moment + Ttl]
  /\ RequireTenantRole(r, visit[r].role)
  /\ UNCHANGED <<moment, standing, entitled>>

\* The handler runs, or the client goes away before.
Serve(r) ==
  /\ visit[r] = [step |-> "serve"]
  /\ Leaves(r)
  /\ UNCHANGED <<moment, standing, entitled, entry>>

\* The caller is promoted, demoted, removed or logged out; a session that is over stays so.
ChangeStanding(s) ==
  /\ standing # SessionOver
  /\ standing' = s
  /\ entitled' = IF s \in Admitting THEN moment ELSE entitled
  /\ UNCHANGED <<moment, entry, visit, admitted>>

Waiting == {r \in Visit : visit[r] # NoVisit /\ visit[r].step \in {"fetch", "store"}}

\* Time passes, but not beyond the timeout of a request.
TimeFlows ==
  /\ moment < MaxMoment
  /\ \A r \in Waiting : moment < visit[r].until
  /\ moment' = moment + 1
  /\ entitled' = IF standing \in Admitting THEN moment + 1 ELSE entitled
  /\ UNCHANGED <<standing, entry, visit, admitted>>

AccessNext ==
  \/ \E r \in Visit :
       \/ Authenticated(r)
       \/ SuperAdmin(r)
       \/ LookUp(r)
       \/ FetchMemberships(r)
       \/ Store(r)
       \/ Serve(r)
  \/ \E s \in Standing : ChangeStanding(s)
  \/ TimeFlows

AccessSpec == AccessInit /\ [][AccessNext]_accessVars

-----------------------------------------------------------------------------
(***************************************************************************)
(* Properties.                                                             *)
(***************************************************************************)

\* The variables have their types; only who is served was admitted.
AccessTypeOK ==
  /\ moment \in Moment /\ entitled \in Moment \cup {LongAgo}
  /\ standing \in Standing
  /\ entry \in Entry \cup {NoEntry}
  /\ visit \in [Visit -> Visiting \cup {NoVisit}]
  /\ \A r \in admitted : visit[r] = [step |-> "serve"]

(***************************************************************************)
(* The cache keeps answers for its ttl.  A member who is demoted, removed  *)
(* or logged out is admitted by the old role for less than the ttl and the *)
(* timeout of one call together: an answer that is old when it is stored   *)
(* lives no longer than a new one, and hits do not prolong it.             *)
(***************************************************************************)
OnlyRecentRolesAdmit ==
  [][admitted' \subseteq admitted
       \/ standing \in Admitting
       \/ moment < entitled + Ttl + Timeout]_accessVars
=============================================================================
