------------------------------ MODULE BankConsent ------------------------------
(* A customer's consent to read an account (app/bank/consent.py, state.py,    *)
(* routes.py, and the provider as app/bank/fake.py answers).  A flow starts   *)
(* with a state token that names the client; the bank sends the browser back  *)
(* with a code; the tokens are filed under the client of the token.  A token  *)
(* is refreshed and an outage is noted through the same store.  The lapse of  *)
(* a consent is the date the customer agreed to, on the bank's side.          *)
EXTENDS Naturals, FiniteSets

CONSTANTS
  ConsentClients,      \* clients of the API
  ConsentIds,   \* ids of consents
  NotStated,         \* a date nobody stated
  StateTtl,     \* STATE_TTL_SECONDS
  AccessTtl, ConsentTtl,   \* lifetimes the bank gives
  MaxDay        \* bound: clock

ASSUME ConsentAssumption ==
  /\ NotStated \notin Nat \cup ConsentClients
  /\ {StateTtl, AccessTtl, ConsentTtl, MaxDay} \subseteq Nat

VARIABLES
  day,          \* clock
  states,       \* state tokens issued: client and time
  consents,     \* the table, by consent id
  lapse,        \* when the customer's agreement ends, for each consent
  shown          \* what the last read said of a consent, until something changes

cvars == <<day, states, consents, lapse, shown>>

NoConsent == [client |-> NotStated]
NoView == [of |-> NotStated, state |-> NotStated, asked |-> NotStated, due |-> NotStated]

CInit ==
  /\ day = 0 /\ states = {}
  /\ consents = [i \in ConsentIds |-> NoConsent] /\ lapse = [i \in ConsentIds |-> NotStated]
  /\ shown = NoView

\* handle_consent_start: a token for the client, and the bank's page.
ConsentStarts(c) ==
  /\ states' = states \cup {[client |-> c, at |-> day]}
  /\ UNCHANGED <<day, consents, lapse, shown>>

\* A state that only considers whether the consent has lapsed.
StateLapseOnly(row, now) ==
  IF row.expires # NotStated /\ row.expires <= now THEN "expired" ELSE "live"

\* Consent.state: lapsed, then out of reach, then never said, then live.
StateOf(row, now) ==
  IF row.expires # NotStated /\ row.expires <= now THEN "expired"
  ELSE IF row.unreachable # NotStated \/ row.expires = NotStated THEN "unknown" ELSE "live"

NeedsRefresh(row, now) == row.access <= now

Shown(i, c, row) ==
  [of |-> i, state |-> StateOf(row, day), asked |-> c, due |-> NeedsRefresh(row, day)]

\* SqliteConsentStore.put: a new row, or the tokens of the same client's row.
ConsentRow(c, expires, access) ==
  [client |-> c, access |-> access, expires |-> expires, unreachable |-> NotStated]

CanPut(i, c) == consents[i].client \in {NotStated, c}

\* handle_consent_callback: a state that verifies, any code that is not blank, a fresh
\* id.  Nothing ties the code to the state, and either can come again while the state
\* lasts.  When the exchange or the store fails after it, nothing is filed.
ConsentCalledBack(s, i, stated) ==
  /\ s \in states /\ day - s.at <= StateTtl
  /\ consents[i] = NoConsent
  /\ consents' = [consents EXCEPT ![i] =
       ConsentRow(s.client, IF stated THEN day + ConsentTtl ELSE NotStated, day + AccessTtl)]
  /\ lapse' = [lapse EXCEPT ![i] = day + ConsentTtl]
  /\ shown' = Shown(i, s.client, consents'[i])
  /\ UNCHANGED <<day, states>>

\* A refresh moves the access expiry.  The bank restates the consent's own or
\* says nothing of it; the row holds what it said.
TokensRefreshed(i, c, stated) ==
  /\ consents[i] # NoConsent /\ CanPut(i, c) /\ day < lapse[i]
  /\ consents' = [consents EXCEPT ![i] =
       ConsentRow(c, IF stated THEN lapse[i] ELSE NotStated, day + AccessTtl)]
  /\ shown' = NoView
  /\ UNCHANGED <<day, states, lapse>>

\* record_unreachable: the first failure keeps its date.
ProviderUnreachable(i, c) ==
  /\ consents[i] # NoConsent /\ consents[i].client = c
  /\ consents' = [consents EXCEPT ![i].unreachable = IF @ = NotStated THEN day ELSE @]
  /\ shown' = NoView
  /\ UNCHANGED <<day, states, lapse>>

\* handle_consent_read: a consent of another client is not there.
ConsentRead(i, c) ==
  /\ consents[i].client = c
  /\ shown' = Shown(i, c, consents[i])
  /\ UNCHANGED <<day, states, consents, lapse>>

ConsentsErased(c) ==
  /\ consents' = [i \in ConsentIds |-> IF consents[i].client = c THEN NoConsent ELSE consents[i]]
  /\ lapse' = [i \in ConsentIds |-> IF consents[i].client = c THEN NotStated ELSE lapse[i]]
  /\ UNCHANGED <<day, states>> /\ shown' = NoView

DayPasses ==
  /\ day < MaxDay /\ day' = day + 1 /\ shown' = NoView
  /\ UNCHANGED <<states, consents, lapse>>

CNext ==
  \/ DayPasses
  \/ \E c \in ConsentClients : ConsentStarts(c) \/ ConsentsErased(c)
  \/ \E s \in states, i \in ConsentIds, b \in BOOLEAN : ConsentCalledBack(s, i, b)
  \/ \E i \in ConsentIds, c \in ConsentClients :
       \/ \E b \in BOOLEAN : TokensRefreshed(i, c, b)
       \/ ProviderUnreachable(i, c) \/ ConsentRead(i, c)

CSpec == CInit /\ [][CNext]_cvars

-----------------------------------------------------------------------------
\* A consent reads live only while the customer's agreement runs and the bank
\* answers, and expired only when the agreement has ended: an outage, a
\* refresh and a date nobody stated make it unknown, never either of the two
\* (consent.py:28-40).
StateIsHonest ==
  shown # NoView =>
    /\ shown.state = "live" => day < lapse[shown.of] /\ consents[shown.of].unreachable = NotStated
    /\ shown.state = "expired" => day >= lapse[shown.of]
    /\ shown.asked = consents[shown.of].client
=============================================================================
