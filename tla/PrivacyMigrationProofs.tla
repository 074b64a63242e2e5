----------------------- MODULE PrivacyMigrationProofs -----------------------
(***************************************************************************)
(* Proofs that PrivacyMigration keeps its promises for any columns, texts, *)
(* lookalikes and keys, and any number of upgrades, downgrades, rotations, *)
(* restarts and writes.                                                    *)
(***************************************************************************)
EXTENDS PrivacyMigration, TLAPS

\* No key, or one: what every reachable value is wrapped in.
Wrappings == {<<>>} \cup {<<k>> : k \in Keys}

\* A column holds the text last stored in it, under at most one key, which the
\* operator still has configured.
CellSound(c) ==
  IF truth[c] = None THEN cell[c] = None
  ELSE /\ cell[c] \in [text: Texts, keys: Wrappings]
       /\ cell[c].text = truth[c]
       /\ cell[c].keys # <<>> => Head(cell[c].keys) \in env.keys

CellsSound == \A c \in Cells : CellSound(c)

\* The key a running service writes with is one the operator has configured.
RingKept == Usable(svc.ring) => svc.ring.active \in env.keys

\* The previous release runs only on the previous schema.
LegacyBehind == svc = Legacy => rev = "0001_init"

TypeInv ==
  /\ rev \in {"none", "0001_init", "0002_privacy_hardening"}
  /\ env \in Keyring
  /\ svc \in {Stopped, Legacy} \cup {Serving(r) : r \in Keyring}
  /\ truth \in [Cells -> Texts \cup {None}]
  /\ cell \in [Cells -> [text: Texts, keys: Wrappings] \cup {None}]

Sound == TypeInv /\ CellsSound /\ RingKept /\ LegacyBehind /\ EncryptedAtHead

-----------------------------------------------------------------------------

\* What the sequence operators make of a value without a key or with one.
LEMMA OneKey ==
  ASSUME NEW k \in Keys
  PROVE  /\ <<k>> \in Wrappings /\ <<k>> # <<>>
         /\ Head(<<k>>) = k /\ Tail(<<k>>) = <<>>
         /\ <<k>> \o <<>> = <<k>>
<1>1. <<k>> \in Wrappings
  BY DEF Wrappings
<1>2. /\ <<k>> \in Seq(Keys) /\ Len(<<k>>) = 1 /\ <<k>>[1] = k
  OBVIOUS
<1>3. <<k>> # <<>> /\ Head(<<k>>) = k /\ Tail(<<k>>) = <<>>
  BY <1>2
<1>4. <<k>> \o <<>> = <<k>>
  BY <1>2
<1> QED BY <1>1, <1>3, <1>4

LEMMA Wrapped ==
  ASSUME NEW w \in Wrappings
  PROVE  /\ w \in Seq(Keys)
         /\ w # <<>> => /\ Head(w) \in Keys /\ Tail(w) = <<>>
                        /\ w = <<Head(w)>>
<1>1. CASE w = <<>>
  BY <1>1
<1>2. CASE \E k \in Keys : w = <<k>>
  BY <1>2, OneKey
<1> QED BY <1>1, <1>2 DEF Wrappings

\* NULL is not a value.
LEMMA NullIsNoValue ==
  None \notin [text: Texts, keys: Wrappings]
<1>1. Wrappings \subseteq Seq(Keys)
  BY Wrapped
<1>2. [text: Texts, keys: Wrappings] \subseteq [text: Texts, keys: Seq(Keys)]
  BY <1>1
<1> QED BY <1>2, PrivacyAssumption

\* A sound column is filled when something was stored in it.
LEMMA SoundCell ==
  ASSUME TypeInv, CellsSound, NEW c \in Cells
  PROVE  /\ c \in Filled <=> truth[c] # None
         /\ truth[c] = None => cell[c] = None
         /\ truth[c] # None => /\ cell[c] \in [text: Texts, keys: Wrappings]
                               /\ cell[c].text = truth[c]
                               /\ cell[c].keys # <<>> => Head(cell[c].keys) \in env.keys
BY NullIsNoValue DEF CellsSound, CellSound, Filled

LEMMA InitSound == Init => Sound
<1> SUFFICES ASSUME Init PROVE Sound
  OBVIOUS
<1>1. TypeInv
  BY DEF Init, TypeInv
<1>2. CellsSound
  BY DEF Init, CellsSound, CellSound
<1>3. RingKept /\ LegacyBehind
  BY DEF Init, RingKept, LegacyBehind, Stopped, Legacy, NoRing, Usable
<1>4. EncryptedAtHead
  BY DEF Init, EncryptedAtHead
<1> QED BY <1>1, <1>2, <1>3, <1>4 DEF Sound

-----------------------------------------------------------------------------
(* One lemma per action.                                                   *)

LEMMA InstallSound == Sound /\ Install => Sound'
<1> SUFFICES ASSUME Sound, Install PROVE Sound'
  OBVIOUS
<1> USE DEF Sound, Install
<1>1. TypeInv' /\ CellsSound'
  BY DEF TypeInv, CellsSound, CellSound
<1>2. RingKept' /\ LegacyBehind' /\ EncryptedAtHead'
  BY DEF RingKept, LegacyBehind, EncryptedAtHead
<1> QED BY <1>1, <1>2

\* The rewrite of one value by the upgrade leaves it under exactly one key.
LEMMA EncryptedOnce ==
  ASSUME NEW v \in [text: Texts, keys: Wrappings], NEW ring \in Keyring, Usable(ring),
         v.keys # <<>> => Head(v.keys) \in ring.keys
  PROVE  /\ Encrypted(v, ring) \in [text: Texts, keys: Wrappings]
         /\ Encrypted(v, ring).text = v.text
         /\ Encrypted(v, ring).keys # <<>>
         /\ Head(Encrypted(v, ring).keys) \in ring.keys
<1>1. ring.active \in Keys /\ ring.active \in ring.keys
  BY DEF Usable, Keyring
<1>2. CASE v.keys # <<>>
  <2>1. Encrypted(v, ring) = v
    BY <1>2 DEF Encrypted, IsEncrypted, Opens
  <2> QED BY <2>1, <1>2
<1>3. CASE v.keys = <<>>
  <2>1. Encrypted(v, ring) = [v EXCEPT !.keys = <<ring.active>> \o <<>>]
    BY <1>3 DEF Encrypted, Opens, EncryptText
  <2>2. Encrypted(v, ring) = [v EXCEPT !.keys = <<ring.active>>]
    BY <2>1, <1>1, OneKey
  <2> QED BY <2>2, <1>1, OneKey
<1> QED BY <1>2, <1>3

\* The rewrite by the downgrade opens it.
LEMMA DecryptedPlain ==
  ASSUME NEW v \in [text: Texts, keys: Wrappings], NEW ring \in Keyring,
         v.keys # <<>>, Head(v.keys) \in ring.keys
  PROVE  Decrypted(v, ring) = Plain(v.text)
<1>1. Decrypted(v, ring) = [v EXCEPT !.keys = Tail(v.keys)]
  BY DEF Decrypted, IsEncrypted, Opens, Opened
<1>2. Tail(v.keys) = <<>>
  BY Wrapped
<1> QED BY <1>1, <1>2 DEF Plain

LEMMA UpgradeSound == Sound /\ Upgrade => Sound'
<1> SUFFICES ASSUME Sound, Upgrade PROVE Sound'
  OBVIOUS
<1> USE DEF Sound
<1>1. ASSUME NEW c \in Cells
      PROVE  /\ cell'[c] \in [text: Texts, keys: Wrappings] \cup {None}
             /\ CellSound(c)'
             /\ cell'[c] # None => cell'[c].keys # <<>>
  <2>1. CASE truth[c] = None
    BY <2>1, SoundCell DEF Upgrade, CellSound
  <2>2. CASE truth[c] # None
    <3>1. c \in Filled /\ Usable(env) /\ env \in Keyring
      BY <2>2, SoundCell DEF Upgrade, TypeInv
    <3>2. cell'[c] = Encrypted(cell[c], env)
      BY <3>1 DEF Upgrade
    <3>3. /\ cell'[c] \in [text: Texts, keys: Wrappings]
          /\ cell'[c].text = truth[c]
          /\ cell'[c].keys # <<>> /\ Head(cell'[c].keys) \in env.keys
      BY <2>2, <3>1, <3>2, SoundCell, EncryptedOnce
    <3> QED BY <2>2, <3>3 DEF Upgrade, CellSound
  <2> QED BY <2>1, <2>2
<1>2. cell' \in [Cells -> [text: Texts, keys: Wrappings] \cup {None}]
  BY <1>1 DEF Upgrade
<1>3. TypeInv' /\ RingKept' /\ LegacyBehind'
  BY <1>2 DEF Upgrade, TypeInv, RingKept, LegacyBehind
<1>4. CellsSound' /\ EncryptedAtHead'
  BY <1>1 DEF CellsSound, EncryptedAtHead, Filled
<1> QED BY <1>3, <1>4

\* Downgrade: every column holds plain text again.
LEMMA DowngradePlain ==
  ASSUME Sound, Downgrade, NEW c \in Cells
  PROVE  cell'[c] = IF truth[c] = None THEN None ELSE Plain(truth[c])
<1> USE DEF Sound
<1>1. CASE truth[c] = None
  BY <1>1, SoundCell DEF Downgrade
<1>2. CASE truth[c] # None
  <2>1. c \in Filled /\ cell'[c] = Decrypted(cell[c], env)
    BY <1>2, SoundCell DEF Downgrade
  <2>2. cell[c].keys # <<>>
    BY <2>1 DEF Downgrade, EncryptedAtHead
  <2>3. Decrypted(cell[c], env) = Plain(cell[c].text)
    BY <1>2, <2>2, SoundCell, DecryptedPlain DEF TypeInv
  <2> QED BY <1>2, <2>1, <2>3, SoundCell
<1> QED BY <1>1, <1>2

LEMMA DowngradeSound == Sound /\ Downgrade => Sound'
<1> SUFFICES ASSUME Sound, Downgrade PROVE Sound'
  OBVIOUS
<1> USE DEF Sound
<1>1. ASSUME NEW c \in Cells
      PROVE  /\ cell'[c] \in [text: Texts, keys: Wrappings] \cup {None}
             /\ CellSound(c)'
  <2>1. truth[c] \in Texts \cup {None} /\ truth' = truth
    BY DEF TypeInv, Downgrade
  <2>2. <<>> \in Wrappings
    BY DEF Wrappings
  <2>3. cell'[c] = IF truth[c] = None THEN None ELSE Plain(truth[c])
    BY DowngradePlain
  <2>4. CASE truth[c] = None
    BY <2>1, <2>3, <2>4 DEF CellSound
  <2>5. CASE truth[c] # None
    BY <2>1, <2>2, <2>3, <2>5 DEF CellSound, Plain
  <2> QED BY <2>4, <2>5
<1>2. cell' \in [Cells -> [text: Texts, keys: Wrappings] \cup {None}]
  BY <1>1 DEF Downgrade
<1>3. TypeInv' /\ RingKept' /\ LegacyBehind' /\ EncryptedAtHead'
  BY <1>2 DEF Downgrade, TypeInv, RingKept, LegacyBehind, EncryptedAtHead
<1> QED BY <1>1, <1>3 DEF CellsSound

LEMMA RotateSound == Sound /\ Rotate => Sound'
<1> SUFFICES ASSUME Sound, Rotate PROVE Sound'
  OBVIOUS
<1> USE DEF Sound
<1>1. ASSUME NEW c \in Cells, truth[c] # None, cell[c].keys # <<>>
      PROVE  Head(cell[c].keys) \in env'.keys
  <2>1. c \in Filled /\ cell[c].keys \in Wrappings
    BY <1>1, SoundCell
  <2>2. PICK k \in Keys : cell[c].keys = <<k>>
    BY <1>1, <2>1 DEF Wrappings
  <2>3. 1 \in DOMAIN cell[c].keys /\ cell[c].keys[1] = Head(cell[c].keys)
    BY <2>2
  <2>4. Head(cell[c].keys) \in Referenced
    BY <2>1, <2>3 DEF Referenced
  <2> QED BY <2>4 DEF Rotate
<1>2. CellsSound'
  BY <1>1, SoundCell DEF Rotate, CellsSound, CellSound
<1>3. RingKept'
  BY DEF Rotate, RingKept, InService
<1>4. TypeInv' /\ LegacyBehind' /\ EncryptedAtHead'
  BY DEF Rotate, TypeInv, LegacyBehind, EncryptedAtHead, Filled
<1> QED BY <1>2, <1>3, <1>4

LEMMA ServiceSound == Sound /\ (Start \/ StartLegacy \/ Stop) => Sound'
<1> SUFFICES ASSUME Sound, Start \/ StartLegacy \/ Stop PROVE Sound'
  OBVIOUS
<1> USE DEF Sound
<1>1. UNCHANGED <<cell, rev, env, truth>>
  BY DEF Start, StartLegacy, Stop
<1>2. CellsSound' /\ EncryptedAtHead'
  BY <1>1 DEF CellsSound, CellSound, EncryptedAtHead, Filled
<1>3. TypeInv' /\ RingKept' /\ LegacyBehind'
  <2>1. CASE Start
    BY <2>1 DEF Start, TypeInv, RingKept, LegacyBehind, Serving, Legacy, Usable
  <2>2. CASE StartLegacy
    BY <2>2 DEF StartLegacy, TypeInv, RingKept, LegacyBehind, Legacy, NoRing, Usable
  <2>3. CASE Stop
    BY <2>3 DEF Stop, TypeInv, RingKept, LegacyBehind, Stopped, Legacy, NoRing, Usable
  <2> QED BY <2>1, <2>2, <2>3
<1> QED BY <1>2, <1>3

LEMMA WriteSound == ASSUME NEW c \in Cells PROVE Sound /\ Write(c) => Sound'
<1> SUFFICES ASSUME Sound, Write(c) PROVE Sound'
  OBVIOUS
<1> USE DEF Sound
\* A value that is stored soundly keeps everything sound.
<1>1. ASSUME NEW v \in [text: Texts, keys: Wrappings] \cup {None}, Store(c, v),
             v # None => (v.keys # <<>> => Head(v.keys) \in env.keys),
             (v # None /\ rev = "0002_privacy_hardening") => v.keys # <<>>
      PROVE  Sound'
  <2>1. /\ cell' = [cell EXCEPT ![c] = v]
        /\ truth' = [truth EXCEPT ![c] = IF v = None THEN None ELSE v.text]
        /\ UNCHANGED <<rev, env, svc>>
    BY <1>1 DEF Store
  <2>2. v # None => v \in [text: Texts, keys: Wrappings] /\ v.text \in Texts /\ v.text # None
    BY <1>1, PrivacyAssumption
  <2>3. TypeInv'
    BY <1>1, <2>1, <2>2 DEF TypeInv
  <2>4. CellsSound'
    <3> SUFFICES ASSUME NEW d \in Cells PROVE CellSound(d)'
      BY DEF CellsSound
    <3>1. CASE d = c
      BY <1>1, <2>1, <2>2, <3>1 DEF CellSound, TypeInv
    <3>2. CASE d # c
      BY <2>1, <3>2 DEF CellSound, CellsSound, TypeInv
    <3> QED BY <3>1, <3>2
  <2>5. RingKept' /\ LegacyBehind'
    BY <2>1 DEF RingKept, LegacyBehind
  <2>6. EncryptedAtHead'
    BY <1>1, <2>1 DEF EncryptedAtHead, Filled, TypeInv
  <2> QED BY <2>3, <2>4, <2>5, <2>6
<1>2. CASE Store(c, None)
  BY <1>1, <1>2
<1>3. ASSUME Usable(svc.ring), svc.release = "current", NEW x \in Texts,
             Store(c, EncryptText(Plain(x), svc.ring))
      PROVE  Sound'
  <2>1. svc.ring.active \in Keys /\ svc.ring.active \in env.keys
    BY <1>3 DEF RingKept, TypeInv, Keyring
  <2>2. EncryptText(Plain(x), svc.ring) = [text |-> x, keys |-> <<svc.ring.active>>]
    BY <2>1, OneKey DEF EncryptText, Plain
  <2> QED BY <1>1, <1>3, <2>1, <2>2, OneKey
<1>4. ASSUME svc = Legacy, NEW x \in Texts, Store(c, Plain(x))
      PROVE  Sound'
  <2>1. Plain(x) \in [text: Texts, keys: Wrappings] /\ Plain(x).keys = <<>>
    BY DEF Plain, Wrappings
  <2>2. rev = "0001_init"
    BY <1>4 DEF LegacyBehind
  <2> QED BY <1>1, <1>4, <2>1, <2>2
<1> QED BY <1>2, <1>3, <1>4 DEF Write

LEMMA NextSound == Sound /\ [Next]_vars => Sound'
<1> SUFFICES ASSUME Sound, [Next]_vars PROVE Sound'
  OBVIOUS
<1>1. CASE UNCHANGED vars
  BY <1>1 DEF vars, Sound, TypeInv, CellsSound, CellSound, RingKept, LegacyBehind,
              EncryptedAtHead, Filled
<1>2. CASE Next
  BY <1>2, InstallSound, UpgradeSound, DowngradeSound, RotateSound, ServiceSound, WriteSound
     DEF Next
<1> QED BY <1>1, <1>2

-----------------------------------------------------------------------------

LEMMA AlwaysSound == Spec => []Sound
BY InitSound, NextSound, PTL DEF Spec

\* Every reachable state is well typed: stored values, keyrings and revision
\* (field_encryption.py, migration 0002) for any columns, texts and keys.
THEOREM PrivacyTypeCorrect == Spec => []PrivacyTypeOK
<1>1. Sound => PrivacyTypeOK
  <2> SUFFICES ASSUME Sound PROVE PrivacyTypeOK
    OBVIOUS
  <2>1. [text: Texts, keys: Wrappings] \subseteq Value
    BY Wrapped DEF Value
  <2> QED BY <2>1 DEF Sound, TypeInv, PrivacyTypeOK
<1> QED BY <1>1, AlwaysSound, PTL

\* At Alembic head nothing is stored in the clear, whatever the migration found
\* and whichever services ran (_rewrite_column, encrypt_text).
THEOREM NothingInTheClear == Spec => []EncryptedAtHead
BY AlwaysSound, PTL DEF Sound

\* An owner reads what was stored, null or an error, and with the current keyring
\* at head exactly what was stored (_decrypt, decrypt_text_field).
THEOREM OwnersReadBack == Spec => []ReadsTrue
<1>1. Sound => ReadsTrue
  <2> SUFFICES ASSUME Sound, NEW c \in Cells
               PROVE  /\ Shown(c) \in {None, Failed, Plain(truth[c])}
                      /\ (/\ rev = "0002_privacy_hardening"
                          /\ svc.ring = env /\ Usable(env)
                          /\ truth[c] # None) => Shown(c) = Plain(truth[c])
    BY DEF ReadsTrue
  <2> USE DEF Sound
  <2>1. CASE truth[c] = None
    BY <2>1, SoundCell DEF Shown
  <2>2. CASE truth[c] # None
    <3>1. cell[c].keys # <<>> => Opened(cell[c]) = Plain(truth[c])
      BY <2>2, SoundCell, Wrapped DEF Opened, Plain
    <3>2. Opens(cell[c], svc.ring) => cell[c].keys # <<>>
      BY DEF Opens
    <3>3. Shown(c) \in {None, Failed, Plain(truth[c])}
      BY <3>1, <3>2 DEF Shown
    <3>4. ASSUME rev = "0002_privacy_hardening", svc.ring = env, Usable(env)
          PROVE  Shown(c) = Plain(truth[c])
      <4>1. cell[c] # None /\ cell[c].keys # <<>>
        BY <2>2, <3>4, SoundCell DEF EncryptedAtHead, Filled
      <4>2. IsEncrypted(cell[c]) /\ Opens(cell[c], svc.ring)
        BY <2>2, <3>4, <4>1, SoundCell DEF IsEncrypted, Opens
      <4> QED BY <3>1, <3>4, <4>1, <4>2 DEF Shown
    <3> QED BY <3>3, <3>4
  <2> QED BY <2>1, <2>2
<1> QED BY <1>1, AlwaysSound, PTL

\* The downgrade of migration 0002 restores every column to the plain text last
\* stored in it (_rewrite_column with encrypt=False).
THEOREM DowngradeRestores == Spec => RollbackRestores
<1>1. Sound /\ [Next]_vars => [RollbackStep]_vars
  <2> SUFFICES ASSUME Sound, Next, rev = "0002_privacy_hardening", rev' = "0001_init",
                      NEW c \in Cells
               PROVE  cell'[c] = IF truth[c] = None THEN None ELSE Plain(truth[c])
    BY DEF RollbackStep
  <2>1. Downgrade
    BY DEF Next, Install, Upgrade, Rotate, Start, StartLegacy, Stop, Write, Store
  <2> QED BY <2>1, DowngradePlain
<1> QED BY <1>1, AlwaysSound, PTL DEF Spec, RollbackRestores
=============================================================================
