------------------------------ MODULE KeyStore ------------------------------
(***************************************************************************)
(* The key pair on disk: KeyManager::load_or_create as run by every start  *)
(* of the program that uses one keys_dir.  Runs may overlap (a client and  *)
(* a server on one machine) and may be killed at any step; nothing locks   *)
(* the two key files.                                                      *)
(*                                                                         *)
(* Data: a key pair is the number under which it was generated.  A key     *)
(* file is the sequence of the keys appended to it (the files are opened   *)
(* with ios::app); loading decodes the first one.  One encoded key is      *)
(* flushed as a whole.                                                     *)
(***************************************************************************)
EXTENDS Naturals, Sequences

CONSTANTS
  Proc,      \* the processes that share the keys directory
  MaxKeys    \* bound: key pairs generated in one behaviour

ASSUME KeyStoreAssumption == MaxKeys \in Nat

VARIABLES
  priv_file,   \* <prefix>_ed25519
  pub_file,    \* <prefix>_ed25519.pub
  generated,   \* how many pairs were generated so far
  pc,          \* pc[p]: where p is in load_or_create
  pub_empty,   \* pub_empty[p]: pubkey_file_size == 0 when p looked
  privkey,     \* privkey[p]: KeyManager::privkey (or signer), 0 when unset
  pubkey,      \* pubkey[p]: KeyManager::pubkey, 0 when unset
  disturbed    \* history: a create was killed halfway or overlapped another

disk == <<priv_file, pub_file>>
mem  == <<pub_empty, privkey, pubkey>>
vars == <<disk, generated, pc, mem, disturbed>>

Keys     == 1..MaxKeys
Creating == {"create", "create_pubkey"}
Loading  == {"load_pub", "load_priv"}
Done     == {"created", "loaded"}
Places   == {"off", "opened", "measured"} \union Creating \union Loading
              \union Done

Init ==
  /\ priv_file = <<>> /\ pub_file = <<>> /\ generated = 0
  /\ pc = [p \in Proc |-> "off"]
  /\ pub_empty = [p \in Proc |-> FALSE]
  /\ privkey = [p \in Proc |-> 0] /\ pubkey = [p \in Proc |-> 0]
  /\ disturbed = FALSE

\* A program starts and opens the files, creating the ones that are missing
\* (a missing file and an empty one read the same).
Start(p) ==
  /\ pc[p] = "off"
  /\ pc' = [pc EXCEPT ![p] = "opened"]
  /\ UNCHANGED <<disk, generated, mem, disturbed>>

MeasurePub(p) ==
  /\ pc[p] = "opened"
  /\ pc' = [pc EXCEPT ![p] = "measured"]
  /\ pub_empty' = [pub_empty EXCEPT ![p] = pub_file = <<>>]
  /\ UNCHANGED <<disk, generated, privkey, pubkey, disturbed>>

\* create() when one of the two files is empty.
MustCreateBoth(pub, priv) == pub /\ priv
MustCreate(pub, priv) == pub \/ priv

MeasurePriv(p) ==
  /\ pc[p] = "measured"
  /\ pc' = [pc EXCEPT ![p] =
              IF MustCreate(pub_empty[p], priv_file = <<>>)
                THEN "create" ELSE "load_pub"]
  /\ disturbed' = (disturbed \/ (/\ pc'[p] = "create"
                                 /\ \E q \in Proc : pc[q] \in Creating))
  /\ UNCHANGED <<disk, generated, mem>>

\* Appending to a key file; a file opened without ios::app is overwritten.
Overwritten(file, k) == <<k>>
Appended(file, k) == Append(file, k)

\* create: a new pair, of which the private key is written first.
CreateForgets(p) ==
  /\ pc[p] = "create" /\ generated < MaxKeys
  /\ generated' = generated + 1
  /\ priv_file' = Appended(priv_file, generated + 1)
  /\ pc' = [pc EXCEPT ![p] = "create_pubkey"]
  /\ UNCHANGED <<pub_file, pub_empty, privkey, pubkey, disturbed>>
CreateInMemory(p) ==
  /\ pc[p] = "create" /\ generated < MaxKeys
  /\ generated' = generated + 1
  /\ privkey' = [privkey EXCEPT ![p] = generated + 1]
  /\ pc' = [pc EXCEPT ![p] = "create_pubkey"]
  /\ UNCHANGED <<disk, pub_empty, pubkey, disturbed>>
Create(p) ==
  /\ pc[p] = "create" /\ generated < MaxKeys
  /\ generated' = generated + 1
  /\ privkey' = [privkey EXCEPT ![p] = generated + 1]
  /\ priv_file' = Appended(priv_file, generated + 1)
  /\ pc' = [pc EXCEPT ![p] = "create_pubkey"]
  /\ UNCHANGED <<pub_file, pub_empty, pubkey, disturbed>>

CreatePubkeyTruncates(p) ==
  /\ pc[p] = "create_pubkey"
  /\ pubkey' = [pubkey EXCEPT ![p] = privkey[p]]
  /\ pub_file' = <<privkey[p]>>
  /\ pc' = [pc EXCEPT ![p] = "created"]
  /\ UNCHANGED <<priv_file, generated, pub_empty, privkey, disturbed>>
CreatePubkey(p) ==
  /\ pc[p] = "create_pubkey"
  /\ pubkey' = [pubkey EXCEPT ![p] = privkey[p]]
  /\ pub_file' = Appended(pub_file, privkey[p])
  /\ pc' = [pc EXCEPT ![p] = "created"]
  /\ UNCHANGED <<priv_file, generated, pub_empty, privkey, disturbed>>

\* (Decoding an empty file throws and the program ends: Exit.)
LoadPub(p) ==
  /\ pc[p] = "load_pub" /\ pub_file # <<>>
  /\ pubkey' = [pubkey EXCEPT ![p] = Head(pub_file)]
  /\ pc' = [pc EXCEPT ![p] = "load_priv"]
  /\ UNCHANGED <<disk, generated, pub_empty, privkey, disturbed>>

LoadPriv(p) ==
  /\ pc[p] = "load_priv" /\ priv_file # <<>>
  /\ privkey' = [privkey EXCEPT ![p] = Head(priv_file)]
  /\ pc' = [pc EXCEPT ![p] = "loaded"]
  /\ UNCHANGED <<disk, generated, pub_empty, pubkey, disturbed>>

\* The program ends, after its work or killed in the middle of it; its memory
\* is gone.
Exit(p) ==
  /\ pc[p] # "off"
  /\ disturbed' = (disturbed \/ pc[p] = "create_pubkey")
  /\ pc' = [pc EXCEPT ![p] = "off"]
  /\ pub_empty' = [pub_empty EXCEPT ![p] = FALSE]
  /\ privkey' = [privkey EXCEPT ![p] = 0]
  /\ pubkey' = [pubkey EXCEPT ![p] = 0]
  /\ UNCHANGED <<disk, generated>>

Next ==
  \E p \in Proc :
    \/ Start(p) \/ MeasurePub(p) \/ MeasurePriv(p)
    \/ Create(p) \/ CreatePubkey(p) \/ LoadPub(p) \/ LoadPriv(p) \/ Exit(p)

Spec == Init /\ [][Next]_vars

-----------------------------------------------------------------------------
\* The types of the state.
TypeOK ==
  /\ priv_file \in Seq(Keys) /\ pub_file \in Seq(Keys)
  /\ generated \in 0..MaxKeys
  /\ pc \in [Proc -> Places]
  /\ pub_empty \in [Proc -> BOOLEAN]
  /\ privkey \in [Proc -> 0..MaxKeys]
  /\ pubkey \in [Proc -> 0..MaxKeys]
  /\ disturbed \in BOOLEAN

Has(file, k) == \E i \in 1..Len(file) : file[i] = k

\* No public key is ever published whose private key is not on disk, however
\* runs are killed and interleaved: create writes the private key first.
PrivateKeyOnDisk ==
  \A i \in 1..Len(pub_file) : Has(priv_file, pub_file[i])

\* What a run loaded is what any other run loads, and what the files still
\* say, for as long as the run lives: two programs on one machine present the
\* same identity even if a third one appends to the files at the same time.
OneIdentity ==
  \A p \in Proc : pc[p] = "loaded" =>
    /\ priv_file # <<>> /\ pub_file # <<>>
    /\ privkey[p] = Head(priv_file) /\ pubkey[p] = Head(pub_file)

\* A run that decided to load finds something to load, although it measured
\* the two files one after the other while other runs were writing them.
LoadFindsKeys ==
  \A p \in Proc : pc[p] \in Loading => priv_file # <<>> /\ pub_file # <<>>

\* If no create was killed between its two writes and no two overlapped, then
\* whatever a run created or loaded is a pair, and the files agree.
PairUnlessDisturbed ==
  ~disturbed =>
    /\ \A p \in Proc : pc[p] \in Done => privkey[p] = pubkey[p]
    /\ (\A p \in Proc : pc[p] # "create_pubkey") => priv_file = pub_file

\* load_or_create gives a key pair: "Loads or creates a ed25519 keypair."
KeyPairMatches ==
  \A p \in Proc : pc[p] \in Done => privkey[p] = pubkey[p]

=============================================================================
