------------------------- MODULE ConsentSessions -------------------------
(***************************************************************************)
(* Consent sessions of one site (database/consent-sessions.ts): how a      *)
(* browser proves that a principal is its own, and the short-lived token   *)
(* it gets for doing so.                                                   *)
(*                                                                         *)
(* Every call of openConsentSession is a process of its own (an Opener):   *)
(* the principal row is read, possibly bound to the presented secret, and  *)
(* only then is the session row created, each in a statement of its own.   *)
(* Secrets and tokens stand for their SHA-256 digests.                     *)
(***************************************************************************)
EXTENDS Integers

CONSTANTS
  Principal,     \* external ids of the site's principals
  Mintable,      \* the ones the server mints; the others are imported rows
  Secret,        \* principal secrets
  Session,       \* consent session tokens
  Opener,        \* executions of openConsentSession
  Ttl,           \* CONSENT_SESSION_TTL_SECONDS
  MaxDecisions,  \* CONSENT_SESSION_MAX_DECISIONS
  MaxTime,       \* bound: the clock stops here
  NoRow,         \* there is no such row
  Unbound        \* principals.secret_hash IS NULL

ASSUME SessionsAssumption ==
  /\ Mintable \subseteq Principal
  /\ NoRow \notin Secret \cup Principal
  /\ Unbound \notin Secret \cup {NoRow}
  /\ Ttl \in Nat \ {0}
  /\ MaxDecisions \in Nat \ {0}
  /\ MaxTime \in Nat

VARIABLES
  now,           \* the server clock
  secretHash,    \* principals.secret_hash, NoRow where there is no row
  session,       \* the consent_sessions rows
  opener         \* the calls of openConsentSession in progress

sessionVars == <<now, secretHash, session, opener>>

SessionStatus == {"unissued", "live", "purged"}

\* "presented" is history: the secret its opener showed. A purged row keeps its
\* fields as history too; nothing reads them.
SessionRow ==
  [status: SessionStatus, principal: Principal \cup {NoRow},
   presented: Secret \cup {Unbound}, expiresAt: Nat, decisionCount: Nat]

Unissued ==
  [status |-> "unissued", principal |-> NoRow, presented |-> Unbound,
   expiresAt |-> 0, decisionCount |-> 0]

OpenerState ==
  [pc: {"start", "bind", "issue", "issued", "unauthorized"},
   principal: Principal \cup {NoRow}, secret: Secret \cup {Unbound}]

SessionTypeOK ==
  /\ now \in Nat
  /\ secretHash \in [Principal -> Secret \cup {Unbound, NoRow}]
  /\ session \in [Session -> SessionRow]
  /\ opener \in [Opener -> OpenerState]

SessionInit ==
  /\ now = 0
  /\ secretHash \in [Principal -> {Unbound, NoRow}]
  /\ \A p \in Mintable : secretHash[p] = NoRow
  /\ session = [t \in Session |-> Unissued]
  /\ opener = [o \in Opener |->
                 [pc |-> "start", principal |-> NoRow, secret |-> Unbound]]

(***************************************************************************)
(* openConsentSession.                                                     *)
(***************************************************************************)

\* No principal id was sent: the server mints one, with a fresh secret.
MintPrincipal(o) ==
  /\ opener[o].pc = "start"
  /\ \E p \in Mintable, s \in Secret :
       /\ secretHash[p] = NoRow
       /\ \A q \in Principal : secretHash[q] # s
       /\ secretHash' = [secretHash EXCEPT ![p] = s]
       /\ opener' = [opener EXCEPT ![o] =
                       [pc |-> "issue", principal |-> p, secret |-> s]]
  /\ UNCHANGED <<now, session>>

\* Mutation for SessionProvesSecret: knowing the id is enough.
AfterLookupTrusting(found, s) ==
  CASE found = NoRow   -> "unauthorized"
    [] found = Unbound -> "bind"
    [] OTHER           -> "issue"

\* The row behind a claimed id is read: the pc is what that read decides. An
\* unknown principal and a wrong secret are refused alike.
AfterLookup(found, s) ==
  CASE found = NoRow   -> "unauthorized"
    [] found = Unbound -> "bind"
    [] found = s       -> "issue"
    [] OTHER           -> "unauthorized"

LookupPrincipal(o) ==
  /\ opener[o].pc = "start"
  /\ \E p \in Principal, s \in Secret :
       opener' = [opener EXCEPT ![o] =
                    [pc |-> AfterLookup(secretHash[p], s),
                     principal |-> p, secret |-> s]]
  /\ UNCHANGED <<now, secretHash, session>>

\* Trust on first use: the update names the row by id alone, so it adopts the
\* presented secret whatever the row holds by now.
AdoptSecret(o) ==
  /\ opener[o].pc = "bind"
  /\ secretHash' = [secretHash EXCEPT ![opener[o].principal] = opener[o].secret]
  /\ opener' = [opener EXCEPT ![o].pc = "issue"]
  /\ UNCHANGED <<now, session>>

IssueSession(o) ==
  /\ opener[o].pc = "issue"
  /\ \E t \in Session :
       /\ session[t].status = "unissued"
       /\ session' = [session EXCEPT ![t] =
            [status |-> "live", principal |-> opener[o].principal,
             presented |-> opener[o].secret,
             expiresAt |-> now + Ttl, decisionCount |-> 0]]
  /\ opener' = [opener EXCEPT ![o].pc = "issued"]
  /\ UNCHANGED <<now, secretHash>>

(***************************************************************************)
(* What other code does with a session row.                                *)
(***************************************************************************)

\* resolveConsentSession: the token names a row that is neither expired nor
\* exhausted. Nothing in the repository sets revoked_at.
Resolves(t) ==
  /\ session[t].status = "live"
  /\ session[t].expiresAt > now
  /\ session[t].decisionCount < MaxDecisions

\* Mutation for ChargedOnce: the update does not compare the count.
ChargeAppliesUnseen(t, seen) == session[t].status = "live"

\* consumeConsentSessionDecision: conditional on the count the caller read.
ChargeApplies(t, seen) ==
  /\ session[t].status = "live"
  /\ session[t].decisionCount = seen

ConsumeDecision(t, seen) ==
  session' = IF ChargeApplies(t, seen)
             THEN [session EXCEPT ![t].decisionCount = @ + 1]
             ELSE session

\* purgeExpiredConsentSessions, with its default argument. The library leaves
\* calling it to an operator.
PurgeExpiredSessions ==
  /\ \E t \in Session : session[t].status = "live" /\ session[t].expiresAt < now
  /\ session' = [t \in Session |->
                   IF session[t].status = "live" /\ session[t].expiresAt < now
                   THEN [session[t] EXCEPT !.status = "purged"]
                   ELSE session[t]]
  /\ UNCHANGED <<now, secretHash, opener>>

Tick ==
  /\ now < MaxTime
  /\ now' = now + 1
  /\ UNCHANGED <<secretHash, session, opener>>

SessionNext ==
  \/ \E o \in Opener :
       MintPrincipal(o) \/ LookupPrincipal(o) \/ AdoptSecret(o) \/ IssueSession(o)
  \/ PurgeExpiredSessions
  \/ Tick

(***************************************************************************)
(* Properties.                                                             *)
(***************************************************************************)

\* A session on a principal the server minted was opened with the very secret
\* that principal was minted with: knowing an identifier is not enough
\* (openConsentSession's digest comparison, against every interleaving of
\* minting, binding and issuing).
SessionProvesSecret ==
  \A t \in Session :
    /\ session[t].status # "unissued"
    /\ session[t].principal \in Mintable
    => session[t].presented = secretHash[session[t].principal]
=============================================================================
