------------------------------ MODULE LobbyStore ------------------------------
(***************************************************************************)
(* The rows every mutation of one lobby goes through: the lobby row, its   *)
(* memberships and its command receipts.  A mutation is one transaction    *)
(* that first locks the lobby row FOR UPDATE, so mutations of one lobby    *)
(* are serialized and each is one action.  Requests are delayed, repeated  *)
(* and interleaved at will: any request may be served at any time, and the *)
(* clock it compares with expires_at was read before it waited for the     *)
(* lock (asOf <= now).                                                     *)
(***************************************************************************)
EXTENDS Integers, FiniteSets, Sequences

CONSTANTS
  Participants,   \* guests known to the API
  Creator,        \* the participant who created the lobby
  Commands,       \* command identifiers (UUIDs) the clients draw
  CommandTypes,   \* command_receipts.command_type
  Fingerprints,   \* the payloads the fingerprints tell apart
  ExpiresAt,      \* lobbies.expires_at
  MaxNow,         \* bound: last instant of the clock
  MaxVersion      \* bound: no settings change at this version or above

ASSUME StoreAssumption ==
  /\ Creator \in Participants
  /\ ExpiresAt \in Nat \ {0}
  /\ MaxNow \in Nat
  /\ MaxVersion \in Nat
  /\ "none" \notin CommandTypes

VARIABLES
  now,        \* the server's clock
  status,     \* lobbies.status
  blindTest,  \* lobbies.blind_test_enabled
  version,    \* lobbies.version
  members,    \* participants with a membership row (left_at is never set)
  receipts,   \* command_receipts, per command identifier
  reply       \* the last answer: to whom, for which command, its code

lobbyVars == <<now, status, blindTest, version, members>>
storeVars == <<lobbyVars, receipts>>

-----------------------------------------------------------------------------
AnyVersion == -1

Request == [actor: Participants, command: Commands, type: CommandTypes,
            fingerprint: Fingerprints, expected: Nat \cup {AnyVersion}]
Receipt == [actor: Participants, type: CommandTypes, fingerprint: Fingerprints]

NoReceipt == [type |-> "none"]

Codes == {"none", "applied", "replayed", "LOBBY_NOT_FOUND",
          "IDEMPOTENCY_KEY_REUSED", "QUEUE_VERSION_CONFLICT",
          "TRACK_NOT_AUTHORIZED", "QUEUE_FULL", "BLIND_TEST_QUEUE_HIDDEN",
          "QUEUE_ITEM_NOT_FOUND", "QUEUE_ITEM_SET_CONFLICT",
          "LEASE_HELD", "LEASE_LOST", "PLAYBACK_COMMAND_REJECTED",
          "QUEUE_EMPTY", "PROVIDER_FAILED"}

ReplyTypeOK ==
  \/ reply = [code |-> "none"]
  \/ reply \in [actor: Participants, command: Commands, code: Codes]

StoreTypeOK ==
  /\ now \in 0..MaxNow
  /\ status \in {"open", "closed", "expired"}
  /\ blindTest \in BOOLEAN
  /\ version \in Nat
  /\ members \subseteq Participants /\ Creator \in members
  /\ receipts \in [Commands -> Receipt \cup {NoReceipt}]
  /\ ReplyTypeOK

StoreInit ==
  /\ now = 0
  /\ status = "open"
  /\ blindTest = FALSE
  /\ version = 0
  /\ members = {Creator}
  /\ receipts = [c \in Commands |-> NoReceipt]
  /\ reply = [code |-> "none"]

-----------------------------------------------------------------------------
(* The prologue of every command: lock, authorize, replay, expected version. *)

\* Slip: the row is locked and its status is not read again.
AuthorizedByClock(p, asOf) == asOf < ExpiresAt /\ p \in members

Authorized(p, asOf) == status = "open" /\ asOf < ExpiresAt /\ p \in members

\* Slip: a receipt only counts for the type of command that wrote it.
UsedByItsType(r) == receipts[r.command].type = r.type

Used(r) == receipts[r.command] # NoReceipt

SameCommand(r) ==
  /\ receipts[r.command].actor = r.actor
  /\ receipts[r.command].type = r.type
  /\ receipts[r.command].fingerprint = r.fingerprint

VersionMatches(r) == r.expected \in {AnyVersion, version}

Admitted(r, asOf) ==
  Authorized(r.actor, asOf) /\ ~Used(r) /\ VersionMatches(r)

Answer(r, code) ==
  reply' = [actor |-> r.actor, command |-> r.command, code |-> code]

\* Slip: the expected version is compared before the receipt is looked up.
VersionBeforeReplay(r, asOf) ==
  \/ /\ ~Authorized(r.actor, asOf)
     /\ Answer(r, "LOBBY_NOT_FOUND")
  \/ /\ Authorized(r.actor, asOf) /\ ~VersionMatches(r)
     /\ Answer(r, "QUEUE_VERSION_CONFLICT")
  \/ /\ Authorized(r.actor, asOf) /\ VersionMatches(r) /\ Used(r)
     /\ Answer(r, IF SameCommand(r) THEN "replayed" ELSE "IDEMPOTENCY_KEY_REUSED")

\* Every way out of the prologue that rolls the transaction back or only reads.
PrologueAnswer(r, asOf) ==
  \/ /\ ~Authorized(r.actor, asOf)
     /\ Answer(r, "LOBBY_NOT_FOUND")
  \/ /\ Authorized(r.actor, asOf) /\ Used(r) /\ SameCommand(r)
     /\ Answer(r, "replayed")
  \/ /\ Authorized(r.actor, asOf) /\ Used(r) /\ ~SameCommand(r)
     /\ Answer(r, "IDEMPOTENCY_KEY_REUSED")
  \/ /\ Authorized(r.actor, asOf) /\ ~Used(r) /\ ~VersionMatches(r)
     /\ Answer(r, "QUEUE_VERSION_CONFLICT")

WriteReceipt(r) ==
  receipts' = [receipts EXCEPT ![r.command] =
    [actor |-> r.actor, type |-> r.type, fingerprint |-> r.fingerprint]]

\* Slip: touchLobby, which only moves updated_at, in the place of incrementVersion.
TouchLobby == UNCHANGED lobbyVars

\* incrementVersion / incrementQueueVersion, inside the command's transaction.
IncrementVersion ==
  version' = version + 1 /\ UNCHANGED <<now, status, blindTest, members>>

-----------------------------------------------------------------------------
(* The lobby's own operations: single statements on the same row.           *)

Join(p, asOf) ==
  /\ status = "open" /\ asOf < ExpiresAt
  /\ members' = members \cup {p}
  /\ UNCHANGED <<now, status, blindTest, version, receipts, reply>>

\* Only a value that differs counts: the same value neither bumps nor announces.
UpdateSettings(p, blind, asOf) ==
  /\ version < MaxVersion
  /\ Authorized(p, asOf) /\ p = Creator /\ blind # blindTest
  /\ blindTest' = blind
  /\ version' = version + 1
  /\ UNCHANGED <<now, status, members, receipts, reply>>

Close(p, asOf) ==
  /\ Authorized(p, asOf) /\ p = Creator
  /\ status' = "closed"
  /\ version' = version + 1
  /\ UNCHANGED <<now, blindTest, members, receipts, reply>>

Expire ==
  /\ status = "open" /\ ExpiresAt <= now
  /\ status' = "expired"
  /\ version' = version + 1
  /\ UNCHANGED <<now, blindTest, members, receipts, reply>>

Tick ==
  /\ now < MaxNow
  /\ now' = now + 1
  /\ UNCHANGED <<status, blindTest, version, members, receipts, reply>>

LobbyStep ==
  \/ \E asOf \in 0..now :
       \/ \E p \in Participants : Join(p, asOf) \/ Close(p, asOf)
       \/ \E p \in Participants, b \in BOOLEAN : UpdateSettings(p, b, asOf)
  \/ Expire
  \/ Tick
=============================================================================
