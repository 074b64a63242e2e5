-------------------------- MODULE PrivacyMigration --------------------------
(***************************************************************************)
(* Encrypted columns over the life of a deployment: utils/                 *)
(* field_encryption.py, migration 0002_privacy_hardening with its upgrade  *)
(* and downgrade, key rotation as docs/OPERATIONS.md prescribes it, the    *)
(* start-up check of main.py, and the writes and reads of the service.     *)
(*                                                                         *)
(* A stored value is the text a client sent under the keys it is wrapped   *)
(* in, outermost first.  AES-GCM is perfect: only the right key opens a    *)
(* layer, and a text that merely looks like an envelope opens under none.  *)
(***************************************************************************)
EXTENDS Sequences

CONSTANTS
  Cells,       \* encrypted columns of all rows
  Texts,       \* what clients send
  Lookalikes,  \* texts that begin with ENVELOPE_PREFIX
  Keys,        \* key ids
  None,        \* NULL, "no key", "nothing to show"
  Failed       \* the answer is a 500

ASSUME PrivacyAssumption ==
  /\ Lookalikes \subseteq Texts
  /\ {None, Failed} \cap (Texts \cup Keys) = {}
  /\ None \notin [text: Texts, keys: Seq(Keys)]

VARIABLES
  cell,   \* stored value of each column
  rev,    \* alembic_version
  env,    \* FINGERPRINTHUB_FIELD_ENCRYPTION_* of processes started from now on
  svc,    \* the serving process: stopped, the previous release, or the current one
  truth   \* history: text last stored in each column

vars == <<cell, rev, env, svc, truth>>

Value == [text: Texts, keys: Seq(Keys)]
Keyring == [keys: SUBSET Keys, active: Keys \cup {None}]

Plain(x) == [text |-> x, keys |-> <<>>]
Serving(ring) == [release |-> "current", ring |-> ring]
NoRing == [keys |-> {}, active |-> None]
Stopped == [release |-> "none", ring |-> NoRing]
Legacy == [release |-> "legacy", ring |-> NoRing]

PrivacyTypeOK ==
  /\ \A c \in Cells : cell[c] = None \/ cell[c] \in Value
  /\ rev \in {"none", "0001_init", "0002_privacy_hardening"}
  /\ env \in Keyring
  /\ svc \in {Stopped, Legacy} \cup {Serving(r) : r \in Keyring}
  /\ truth \in [Cells -> Texts \cup {None}]

Init ==
  /\ cell = [c \in Cells |-> None]
  /\ rev = "none"
  /\ env \in Keyring
  /\ svc = Stopped
  /\ truth = [c \in Cells |-> None]

-----------------------------------------------------------------------------
(* field_encryption.py                                                     *)

\* parse_keyring() accepts the environment.
UsableWithAnyActive(ring) == ring.keys # {}
Usable(ring) == ring.keys # {} /\ ring.active \in ring.keys

\* value.startswith(ENVELOPE_PREFIX)
IsEncrypted(v) == v.keys # <<>> \/ v.text \in Lookalikes

\* decrypt_text() with a usable ring raises no FieldDecryptionError.
OpensWithActiveKey(v, ring) == v.keys # <<>> /\ Head(v.keys) = ring.active
Opens(v, ring) == v.keys # <<>> /\ Head(v.keys) \in ring.keys
Opened(v) == [v EXCEPT !.keys = Tail(@)]

EncryptText(v, ring) == [v EXCEPT !.keys = <<ring.active>> \o @]

-----------------------------------------------------------------------------
(* Migration 0002, one transaction under ACCESS EXCLUSIVE locks.           *)

Filled == {c \in Cells : cell[c] # None}

\* Faulty: the prefix is taken as proof, or nothing is.
EncryptedByPrefix(v, ring) == IF IsEncrypted(v) THEN v ELSE EncryptText(v, ring)
EncryptedAgain(v, ring) == EncryptText(v, ring)

\* _rewrite_column(encrypt=True) and (encrypt=False) on one value.
Encrypted(v, ring) ==
  IF IsEncrypted(v) /\ Opens(v, ring) THEN v ELSE EncryptText(v, ring)
Decrypted(v, ring) ==
  IF IsEncrypted(v) /\ Opens(v, ring) THEN Opened(v) ELSE v

\* alembic upgrade 0001_init, by the previous release.
Install ==
  /\ rev = "none"
  /\ rev' = "0001_init"
  /\ UNCHANGED <<cell, env, svc, truth>>

\* alembic upgrade head.  Without a usable keyring the first value aborts it.
Upgrade ==
  /\ rev # "0002_privacy_hardening"
  /\ svc # Legacy
  /\ Usable(env) \/ Filled = {}
  /\ cell' = [c \in Cells |-> IF c \in Filled THEN Encrypted(cell[c], env) ELSE None]
  /\ rev' = "0002_privacy_hardening"
  /\ UNCHANGED <<env, svc, truth>>

\* alembic downgrade 0001_init.
Downgrade ==
  /\ rev = "0002_privacy_hardening"
  /\ Usable(env) \/ \A c \in Filled : ~ IsEncrypted(cell[c])
  /\ cell' = [c \in Cells |-> IF c \in Filled THEN Decrypted(cell[c], env) ELSE None]
  /\ rev' = "0001_init"
  /\ UNCHANGED <<env, svc, truth>>

-----------------------------------------------------------------------------
(* The operator and the service.                                           *)

\* Keys some row references, and the one a running service writes with.
Referenced ==
  UNION {{cell[c].keys[i] : i \in DOMAIN cell[c].keys} : c \in Filled}
InService == IF Usable(svc.ring) THEN {svc.ring.active} ELSE {}

\* Rotation: "Keep old field-encryption keys configured for as long as any
\* row still references them."
Rotate ==
  /\ env' \in Keyring
  /\ Referenced \cup InService \subseteq env'.keys
  /\ UNCHANGED <<cell, rev, svc, truth>>

\* main(): validate_postgres_runtime() insists on Alembic head; the keyring
\* is not looked at before its first use and does not change after it.
Start ==
  /\ svc = Stopped
  /\ rev = "0002_privacy_hardening"
  /\ svc' = Serving(env)
  /\ UNCHANGED <<cell, rev, env, truth>>

\* The previous release keeps plain text and knows no keys.
StartLegacy ==
  /\ svc = Stopped
  /\ rev = "0001_init"
  /\ svc' = Legacy
  /\ UNCHANGED <<cell, rev, env, truth>>

Stop ==
  /\ svc # Stopped
  /\ svc' = Stopped
  /\ UNCHANGED <<cell, rev, env, truth>>

Store(c, v) ==
  /\ cell' = [cell EXCEPT ![c] = v]
  /\ truth' = [truth EXCEPT ![c] = IF v = None THEN None ELSE v.text]
  /\ UNCHANGED <<rev, env, svc>>

\* contribute(), report_hit() and flag() store encrypt_text(value): NULL needs
\* no key, text without a usable keyring fails the call (500).
Write(c) ==
  \/ /\ svc.release = "current"
     /\ \/ Store(c, None)
        \/ /\ Usable(svc.ring)
           /\ \E x \in Texts : Store(c, EncryptText(Plain(x), svc.ring))
  \/ /\ svc = Legacy
     /\ \E x \in Texts : Store(c, Plain(x))

\* _decrypt() in the answer to an owner or admin: what cannot be opened is
\* shown as null; no usable keyring is an error (500).
Shown(c) ==
  LET v == cell[c] IN
    IF v = None \/ ~ IsEncrypted(v) THEN None
    ELSE IF ~ Usable(svc.ring) THEN Failed
    ELSE IF Opens(v, svc.ring) THEN Opened(v) ELSE None

Next ==
  \/ Install \/ Upgrade \/ Downgrade
  \/ Rotate \/ Start \/ StartLegacy \/ Stop
  \/ \E c \in Cells : Write(c)

Spec == Init /\ [][Next]_vars

-----------------------------------------------------------------------------
(* What the encryption of fields promises.                                 *)

\* Once the schema is at 0002 no value is stored in the clear, whatever was
\* there before: legacy text, text that looks like an envelope, values written
\* by a service that kept running across a downgrade, or a service that was
\* started without keys.
EncryptedAtHead ==
  rev = "0002_privacy_hardening" => \A c \in Filled : cell[c].keys # <<>>

\* An owner is shown exactly what was stored, null or an error, never another
\* text and never an envelope; and at head, when the service runs with the
\* current keyring, exactly what was stored: no sequence of upgrades,
\* downgrades and rotations wraps a value twice or leaves its key behind.
ReadsTrue ==
  svc.release = "current" => \A c \in Cells :
    /\ Shown(c) \in {None, Failed, Plain(truth[c])}
    /\ (/\ rev = "0002_privacy_hardening"
        /\ svc.ring = env /\ Usable(env)
        /\ truth[c] # None) => Shown(c) = Plain(truth[c])

\* "Its downgrade restores the prior plaintext representation": afterwards
\* every column holds the plain text last stored in it, whichever of the
\* configured keys it was under.
RollbackStep ==
  (rev = "0002_privacy_hardening" /\ rev' = "0001_init") =>
    \A c \in Cells : cell'[c] = IF truth[c] = None THEN None ELSE Plain(truth[c])
RollbackRestores == [][RollbackStep]_vars
=============================================================================
