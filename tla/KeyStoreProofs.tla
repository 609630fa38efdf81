--------------------------- MODULE KeyStoreProofs ---------------------------
(***************************************************************************)
(* Proofs about KeyStore for any number of processes and key pairs.        *)
(***************************************************************************)
EXTENDS KeyStore, SequenceTheorems, TLAPS

\* What a run knows of the files while it is between two of its steps.
Known ==
  \A p \in Proc :
    /\ pc[p] = "measured" /\ ~pub_empty[p] => pub_file # <<>>
    /\ pc[p] = "load_priv" => pubkey[p] = Head(pub_file)
    /\ pc[p] = "create_pubkey" =>
         privkey[p] \in Keys /\ Has(priv_file, privkey[p])

\* The inductive invariant: what holds through crashes and overlaps.
IInv == TypeOK /\ PrivateKeyOnDisk /\ OneIdentity /\ LoadFindsKeys /\ Known

-----------------------------------------------------------------------------
(* Appending to a key file.                                                *)

LEMMA AppendedFile ==
  ASSUME NEW f \in Seq(Keys), NEW k \in Keys
  PROVE  /\ Appended(f, k) \in Seq(Keys)
         /\ Appended(f, k) # <<>>
         /\ Len(Appended(f, k)) = Len(f) + 1
         /\ \A i \in 1..Len(f) : Appended(f, k)[i] = f[i]
         /\ Appended(f, k)[Len(f) + 1] = k
  BY AppendProperties DEF Appended

\* The first key, the one that is loaded, is there to stay.
LEMMA AppendedHead ==
  ASSUME NEW f \in Seq(Keys), NEW k \in Keys, f # <<>>
  PROVE  Head(Appended(f, k)) = Head(f)
  <1>1. Len(f) \in Nat \ {0}
    BY EmptySeq
  <1>2. Head(f) = f[1] /\ Head(Appended(f, k)) = Appended(f, k)[1]
    BY AppendedFile
  <1> QED
    BY <1>1, <1>2, AppendedFile

LEMMA AppendedHas ==
  ASSUME NEW f \in Seq(Keys), NEW k \in Keys
  PROVE  /\ Has(Appended(f, k), k)
         /\ \A x : Has(f, x) => Has(Appended(f, k), x)
  <1>1. Len(f) \in Nat
    OBVIOUS
  <1>2. Has(Appended(f, k), k)
    BY <1>1, AppendedFile DEF Has
  <1>3. ASSUME NEW x, Has(f, x) PROVE Has(Appended(f, k), x)
    <2>1. PICK i \in 1..Len(f) : f[i] = x
      BY <1>3 DEF Has
    <2> DEFINE g == Appended(f, k)
    <2>2. /\ Len(g) = Len(f) + 1
          /\ g[i] = f[i]
      BY <2>1, AppendedFile
    <2> HIDE DEF g
    <2>3. i \in 1..Len(g) /\ g[i] = x
      BY <1>1, <2>1, <2>2
    <2> QED
      BY <2>3 DEF Has, g
  <1> QED
    BY <1>2, <1>3

-----------------------------------------------------------------------------
(* The inductive invariant.                                                *)

LEMMA InitIInv == Init => IInv
  <1> SUFFICES ASSUME Init PROVE IInv
    OBVIOUS
  <1> USE KeyStoreAssumption DEF Init
  <1>1. priv_file \in Seq(Keys) /\ pub_file \in Seq(Keys)
    BY EmptySeq
  <1>2. TypeOK
    <2>1. 0 \in 0..MaxKeys /\ "off" \in Places
      BY DEF Places
    <2>2. pc \in [Proc -> Places] /\ pub_empty \in [Proc -> BOOLEAN]
      BY <2>1
    <2>3. privkey \in [Proc -> 0..MaxKeys] /\ pubkey \in [Proc -> 0..MaxKeys]
      BY <2>1
    <2> QED
      BY <1>1, <2>1, <2>2, <2>3 DEF TypeOK
  <1>3. PrivateKeyOnDisk
    BY EmptySeq DEF PrivateKeyOnDisk
  <1>4. \A p \in Proc : pc[p] = "off"
    OBVIOUS
  <1>5. OneIdentity /\ LoadFindsKeys /\ Known
    BY <1>4 DEF OneIdentity, LoadFindsKeys, Known, Loading
  <1> QED
    BY <1>2, <1>3, <1>5 DEF IInv

\* A step of p that leaves the files alone.
LEMMA MemoryStep ==
  ASSUME IInv, NEW p \in Proc,
         \/ Start(p) \/ MeasurePub(p) \/ MeasurePriv(p)
         \/ LoadPub(p) \/ LoadPriv(p) \/ Exit(p)
  PROVE  IInv'
  <1> USE KeyStoreAssumption DEF Places, Creating, Loading, Done, Keys
  <1>1. UNCHANGED <<disk, generated>>
    BY DEF Start, MeasurePub, MeasurePriv, LoadPub, LoadPriv, Exit
  <1>2. PrivateKeyOnDisk'
    BY <1>1 DEF IInv, PrivateKeyOnDisk, Has, disk
  <1>3. TypeOK'
    <2>1. /\ priv_file' \in Seq(Keys) /\ pub_file' \in Seq(Keys)
          /\ generated' \in 0..MaxKeys
      BY <1>1 DEF IInv, TypeOK, disk
    <2>2. pc' \in [Proc -> Places] /\ pub_empty' \in [Proc -> BOOLEAN]
      BY DEF IInv, TypeOK, Start, MeasurePub, MeasurePriv, LoadPub,
         LoadPriv, Exit, mem
    <2>3. privkey' \in [Proc -> 0..MaxKeys] /\ pubkey' \in [Proc -> 0..MaxKeys]
      <3>1. pub_file # <<>> => Head(pub_file) \in 0..MaxKeys
        BY DEF IInv, TypeOK
      <3>2. priv_file # <<>> => Head(priv_file) \in 0..MaxKeys
        BY DEF IInv, TypeOK
      <3> QED
        <4>1. CASE LoadPub(p)
          BY <3>1, <4>1 DEF IInv, TypeOK, LoadPub
        <4>2. CASE LoadPriv(p)
          BY <3>2, <4>2 DEF IInv, TypeOK, LoadPriv
        <4>3. CASE Exit(p)
          BY <4>3 DEF IInv, TypeOK, Exit
        <4>4. CASE Start(p) \/ MeasurePub(p) \/ MeasurePriv(p)
          BY <4>4 DEF IInv, TypeOK, Start, MeasurePub, MeasurePriv, mem
        <4> QED
          BY <4>1, <4>2, <4>3, <4>4
    <2>4. disturbed' \in BOOLEAN
      BY DEF IInv, TypeOK, Start, MeasurePub, MeasurePriv, LoadPub,
         LoadPriv, Exit
    <2> QED
      BY <2>1, <2>2, <2>3, <2>4 DEF TypeOK
  <1>4. OneIdentity' /\ LoadFindsKeys' /\ Known'
    <2> USE <1>1 DEF IInv, TypeOK, OneIdentity, LoadFindsKeys, Known, disk, mem
    <2>0. \A k : Has(priv_file, k)' <=> Has(priv_file, k)
      BY DEF Has
    <2> USE <2>0
    <2>1. CASE Start(p)
      BY <2>1 DEF Start
    <2>2. CASE MeasurePub(p)
      <3>1. /\ UNCHANGED <<priv_file, pub_file, privkey, pubkey>>
            /\ \A q \in Proc \ {p} : /\ pc'[q] = pc[q]
                                    /\ pub_empty'[q] = pub_empty[q]
            /\ pc'[p] = "measured" /\ pub_empty'[p] = (pub_file = <<>>)
        BY <2>2 DEF MeasurePub
      <3>2. OneIdentity' /\ LoadFindsKeys'
        BY <3>1
      <3>3. Known'
        BY <3>1
      <3> QED
        BY <3>2, <3>3
    <2>3. CASE MeasurePriv(p)
      <3>1. /\ UNCHANGED <<priv_file, pub_file, pub_empty, privkey, pubkey>>
            /\ \A q \in Proc \ {p} : pc'[q] = pc[q]
            /\ pc'[p] = IF MustCreate(pub_empty[p], priv_file = <<>>)
                          THEN "create" ELSE "load_pub"
        BY <2>3 DEF MeasurePriv
      <3>2. pc'[p] = "load_pub" => priv_file # <<>> /\ pub_file # <<>>
        BY <2>3, <3>1 DEF MeasurePriv, MustCreate
      <3> QED
        BY <3>1, <3>2
    <2>4. CASE LoadPub(p)
      BY <2>4 DEF LoadPub
    <2>5. CASE LoadPriv(p)
      BY <2>5 DEF LoadPriv
    <2>6. CASE Exit(p)
      BY <2>6 DEF Exit
    <2> QED
      BY <2>1, <2>2, <2>3, <2>4, <2>5, <2>6
  <1> QED
    BY <1>2, <1>3, <1>4 DEF IInv

LEMMA CreateStep ==
  ASSUME IInv, NEW p \in Proc, Create(p)
  PROVE  IInv'
  <1> DEFINE k == generated + 1
  <1> USE KeyStoreAssumption DEF Places, Creating, Loading, Done
  <1>1. k \in Keys /\ priv_file \in Seq(Keys) /\ pub_file \in Seq(Keys)
    BY DEF IInv, TypeOK, Create, Keys
  <1>2. /\ priv_file' = Appended(priv_file, k) /\ pub_file' = pub_file
        /\ pc' = [pc EXCEPT ![p] = "create_pubkey"]
        /\ privkey' = [privkey EXCEPT ![p] = k]
        /\ generated' = k
        /\ UNCHANGED <<pub_empty, pubkey, disturbed>>
    BY DEF Create
  <1> HIDE DEF k
  <1>3. /\ priv_file' \in Seq(Keys) /\ priv_file' # <<>>
        /\ priv_file # <<>> => Head(priv_file') = Head(priv_file)
    BY <1>1, <1>2, AppendedFile, AppendedHead
  <1>4. Has(priv_file', k) /\ \A x : Has(priv_file, x) => Has(priv_file', x)
    BY <1>1, <1>2, AppendedHas
  <1>5. TypeOK'
    BY <1>1, <1>2, <1>3 DEF IInv, TypeOK, Keys
  <1>6. PrivateKeyOnDisk'
    BY <1>2, <1>4 DEF IInv, PrivateKeyOnDisk
  <1>7. OneIdentity' /\ LoadFindsKeys'
    BY <1>2, <1>3 DEF IInv, TypeOK, OneIdentity, LoadFindsKeys
  <1>8. Known'
    BY <1>1, <1>2, <1>4 DEF IInv, TypeOK, Known
  <1> QED
    BY <1>5, <1>6, <1>7, <1>8 DEF IInv

LEMMA CreatePubkeyStep ==
  ASSUME IInv, NEW p \in Proc, CreatePubkey(p)
  PROVE  IInv'
  <1> DEFINE k == privkey[p]
  <1> USE KeyStoreAssumption DEF Places, Creating, Loading, Done
  <1>1. /\ k \in Keys /\ Has(priv_file, k)
        /\ priv_file \in Seq(Keys) /\ pub_file \in Seq(Keys)
    BY DEF IInv, TypeOK, Known, CreatePubkey
  <1>2. /\ pub_file' = Appended(pub_file, k) /\ priv_file' = priv_file
        /\ pc' = [pc EXCEPT ![p] = "created"]
        /\ pubkey' = [pubkey EXCEPT ![p] = k]
        /\ UNCHANGED <<generated, pub_empty, privkey, disturbed>>
    BY DEF CreatePubkey
  <1> HIDE DEF k
  <1>3. /\ pub_file' \in Seq(Keys) /\ pub_file' # <<>>
        /\ pub_file # <<>> => Head(pub_file') = Head(pub_file)
    BY <1>1, <1>2, AppendedFile, AppendedHead
  <1>4. TypeOK'
    BY <1>1, <1>2, <1>3 DEF IInv, TypeOK, Keys
  <1>5. PrivateKeyOnDisk'
    <2> SUFFICES ASSUME NEW i \in 1..Len(pub_file')
                 PROVE  Has(priv_file, pub_file'[i])
      BY <1>2 DEF PrivateKeyOnDisk, Has
    <2>1. Len(pub_file) \in Nat /\ Len(pub_file') = Len(pub_file) + 1
      BY <1>1, <1>2, AppendedFile
    <2>2. CASE i \in 1..Len(pub_file)
      BY <1>1, <1>2, <2>2, AppendedFile DEF IInv, PrivateKeyOnDisk
    <2>3. CASE i = Len(pub_file) + 1
      BY <1>1, <1>2, <2>3, AppendedFile
    <2> QED
      BY <2>1, <2>2, <2>3
  <1>6. OneIdentity' /\ LoadFindsKeys'
    BY <1>2, <1>3 DEF IInv, TypeOK, OneIdentity, LoadFindsKeys
  <1>7. Known'
    BY <1>2, <1>3 DEF IInv, TypeOK, Known, Has, LoadFindsKeys
  <1> QED
    BY <1>4, <1>5, <1>6, <1>7 DEF IInv

LEMMA NextIInv == IInv /\ [Next]_vars => IInv'
  <1>1. ASSUME IInv, UNCHANGED vars PROVE IInv'
    <2> USE <1>1 DEF IInv, vars, disk, mem
    <2>1. TypeOK'
      BY DEF TypeOK
    <2>2. PrivateKeyOnDisk'
      BY DEF PrivateKeyOnDisk, Has
    <2>3. OneIdentity' /\ LoadFindsKeys'
      BY DEF OneIdentity, LoadFindsKeys
    <2>4. Known'
      BY DEF Known, Has
    <2> QED
      BY <2>1, <2>2, <2>3, <2>4
  <1> QED
    BY <1>1, MemoryStep, CreateStep, CreatePubkeyStep DEF Next

LEMMA IInvHolds == Spec => []IInv
  BY InitIInv, NextIInv, PTL DEF Spec

\* While nothing disturbed them: one create at a time, the private key file is
\* ahead by at most the key of that create, and every finished run has a pair.
Calm ==
  ~disturbed =>
    /\ \A p, q \in Proc : pc[p] \in Creating /\ pc[q] \in Creating => p = q
    /\ (\A p \in Proc : pc[p] # "create_pubkey") => priv_file = pub_file
    /\ \A p \in Proc : pc[p] = "create_pubkey" =>
         priv_file = Append(pub_file, privkey[p])
    /\ \A p \in Proc : pc[p] \in Done => privkey[p] = pubkey[p]

LEMMA CalmStep ==
  ASSUME IInv, Calm, [Next]_vars
  PROVE  Calm'
  <1> USE DEF Creating, Loading, Done
  <1>1. CASE UNCHANGED vars
    BY <1>1 DEF Calm, vars, disk, mem
  <1>2. ASSUME NEW p \in Proc, Start(p) \/ MeasurePub(p)
        PROVE  Calm'
    <2>1. CASE Start(p)
      BY <1>2, <2>1 DEF Calm, IInv, TypeOK, Start, disk, mem
    <2>2. CASE MeasurePub(p)
      BY <1>2, <2>2 DEF Calm, IInv, TypeOK, MeasurePub, disk
    <2> QED
      BY <1>2, <2>1, <2>2
  <1>3. ASSUME NEW p \in Proc, MeasurePriv(p)
        PROVE  Calm'
    <2>1. UNCHANGED <<disk, generated, mem>>
      BY <1>3 DEF MeasurePriv
    <2>2. pc' = [pc EXCEPT ![p] = "create"] \/ pc' = [pc EXCEPT ![p] = "load_pub"]
      BY <1>3 DEF MeasurePriv
    <2>3. ~disturbed' =>
            ~disturbed /\ (pc'[p] = "create" =>
                             \A q \in Proc : pc[q] \notin Creating)
      BY <1>3 DEF MeasurePriv
    <2> QED
      BY <1>3, <2>1, <2>2, <2>3 DEF Calm, IInv, TypeOK, MeasurePriv, disk, mem
  <1>4. ASSUME NEW p \in Proc, Create(p)
        PROVE  Calm'
    BY <1>4 DEF Calm, IInv, TypeOK, Create, Appended
  <1>5. ASSUME NEW p \in Proc, CreatePubkey(p)
        PROVE  Calm'
    BY <1>5 DEF Calm, IInv, TypeOK, CreatePubkey, Appended
  <1>6. ASSUME NEW p \in Proc, LoadPub(p)
        PROVE  Calm'
    BY <1>6 DEF Calm, IInv, TypeOK, LoadPub, disk
  <1>7. ASSUME NEW p \in Proc, LoadPriv(p)
        PROVE  Calm'
    <2>1. ~disturbed => Head(priv_file) = Head(pub_file)
      <3>1. CASE \A q \in Proc : pc[q] # "create_pubkey"
        BY <3>1 DEF Calm
      <3>2. ASSUME NEW q \in Proc, pc[q] = "create_pubkey", ~disturbed
            PROVE  Head(priv_file) = Head(pub_file)
        <4>1. priv_file = Appended(pub_file, privkey[q]) /\ pub_file # <<>>
          BY <1>7, <3>2 DEF Calm, Appended, IInv, LoadFindsKeys, LoadPriv
        <4>2. privkey[q] \in Keys /\ pub_file \in Seq(Keys)
          BY <3>2 DEF IInv, Known, TypeOK
        <4> QED
          BY <4>1, <4>2, AppendedHead
      <3> QED
        BY <3>1, <3>2
    <2>2. pubkey[p] = Head(pub_file)
      BY <1>7 DEF IInv, Known, LoadPriv
    <2> QED
      BY <1>7, <2>1, <2>2 DEF Calm, IInv, TypeOK, LoadPriv, disk
  <1>8. ASSUME NEW p \in Proc, Exit(p)
        PROVE  Calm'
    BY <1>8 DEF Calm, IInv, TypeOK, Exit, disk
  <1> QED
    BY <1>1, <1>2, <1>3, <1>4, <1>5, <1>6, <1>7, <1>8 DEF Next

\* Type correctness, for every set of processes.
THEOREM TypeCorrect == Spec => []TypeOK
  BY IInvHolds, PTL DEF IInv

\* No public key is published whose private key is not on disk: however many
\* runs overlap and wherever they are killed.
THEOREM NoOrphanPublicKey == Spec => []PrivateKeyOnDisk
  BY IInvHolds, PTL DEF IInv

\* All living runs that loaded the keys hold the pair the files start with.
THEOREM IdentityIsStable == Spec => []OneIdentity
  BY IInvHolds, PTL DEF IInv

\* The two sizes, measured one after the other, are enough to load.
THEOREM LoadIsSafe == Spec => []LoadFindsKeys
  BY IInvHolds, PTL DEF IInv

\* Only a create that was killed between its writes, or that overlapped another
\* one, can give a run two keys that are not a pair.
THEOREM UndisturbedPairs == Spec => []PairUnlessDisturbed
  <1>1. Init => Calm
    BY DEF Init, Calm, Creating, Done
  <1>2. Calm => PairUnlessDisturbed
    BY DEF Calm, PairUnlessDisturbed
  <1>3. IInv /\ Calm /\ [Next]_vars => Calm'
    BY CalmStep
  <1> QED
    BY <1>1, <1>2, <1>3, IInvHolds, PTL DEF Spec

-----------------------------------------------------------------------------
(* The identity outlives the runs.                                         *)

Loaded(p, priv, pub) ==
  pc[p] = "loaded" /\ privkey[p] = priv /\ pubkey[p] = pub

\* What the files say once somebody could load them.
Settled(priv, pub) ==
  /\ priv_file # <<>> /\ Head(priv_file) = priv
  /\ pub_file # <<>> /\ Head(pub_file) = pub

\* Once a run loaded an identity, every later run that loads one loads the same,
\* whatever was killed, appended or loaded in between.
OneIdentityForEver(priv, pub) ==
  []((\E p \in Proc : Loaded(p, priv, pub))
       => [](\A q \in Proc : pc[q] = "loaded" => Loaded(q, priv, pub)))

LEMMA SettledStays ==
  ASSUME NEW priv, NEW pub, IInv, Settled(priv, pub), [Next]_vars
  PROVE  Settled(priv, pub)'
  <1> USE DEF IInv, TypeOK, Settled
  <1>1. CASE \E p \in Proc : Create(p)
    <2>1. /\ generated + 1 \in Keys /\ pub_file' = pub_file
          /\ priv_file' = Appended(priv_file, generated + 1)
      BY <1>1, KeyStoreAssumption DEF Create, Keys
    <2> QED
      BY <2>1, AppendedFile, AppendedHead
  <1>2. CASE \E p \in Proc : CreatePubkey(p)
    <2>1. PICK p \in Proc : CreatePubkey(p)
      BY <1>2
    <2>2. /\ privkey[p] \in Keys /\ priv_file' = priv_file
          /\ pub_file' = Appended(pub_file, privkey[p])
      BY <2>1 DEF CreatePubkey, Known
    <2> QED
      BY <2>2, AppendedFile, AppendedHead
  <1>3. CASE \/ UNCHANGED vars
             \/ \E p \in Proc : \/ Start(p) \/ MeasurePub(p) \/ MeasurePriv(p)
                                \/ LoadPub(p) \/ LoadPriv(p) \/ Exit(p)
    <2>1. UNCHANGED disk
      BY <1>3 DEF Start, MeasurePub, MeasurePriv, LoadPub, LoadPriv, Exit, vars
    <2> QED
      BY <2>1 DEF disk
  <1> QED
    BY <1>1, <1>2, <1>3 DEF Next

\* The program has one identity per keys directory, not one per run.
THEOREM IdentityOutlivesRuns ==
  ASSUME NEW CONSTANT priv, NEW CONSTANT pub
  PROVE  Spec => OneIdentityForEver(priv, pub)
  <1>1. IInv /\ Settled(priv, pub) /\ [Next]_vars => Settled(priv, pub)'
    BY SettledStays
  <1>2. IInv /\ (\E p \in Proc : Loaded(p, priv, pub)) => Settled(priv, pub)
    BY DEF IInv, OneIdentity, Loaded, Settled
  <1>3. IInv /\ Settled(priv, pub)
          => \A q \in Proc : pc[q] = "loaded" => Loaded(q, priv, pub)
    BY DEF IInv, OneIdentity, Loaded, Settled
  <1> QED
    BY IInvHolds, <1>1, <1>2, <1>3, PTL DEF Spec, OneIdentityForEver

=============================================================================
