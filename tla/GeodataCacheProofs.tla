--------------------------- MODULE GeodataCacheProofs ---------------------------
(***************************************************************************)
(* GeodataCache for any products, contents, candidates and templates, and  *)
(* any number of changes and interruptions.                                *)
(***************************************************************************)
EXTENDS GeodataCache, TLAPS

(* Checking a product *)

\* What the digest of a payload with a short file would be.
TornDigest(p) == {Digest(p, t) : t \in Torn(p)}

LEMMA PayloadFacts ==
  ASSUME NEW p \in Product
  PROVE  /\ Payload(p) \subseteq Tree /\ NoFile \notin Payload(p)
         /\ p \notin Directory =>
              \A t \in Payload(p) : DOMAIN t = {UrlName} /\ t[UrlName] \in Content
<1>1. UrlName \in Name /\ NoFile \notin Tree
  BY DataAssumption
<1>2. [{UrlName} -> Content] \subseteq Tree
  BY <1>1 DEF Tree
<1>3. QED
  BY <1>1, <1>2 DEF Payload

LEMMA DigestFacts ==
  ASSUME NEW p \in Product, NEW t \in Payload(p)
  PROVE  /\ Digest(p, t) \in SomeDigest
         /\ Digest(p, t) # NoDigest
         /\ t \in Whole(p) => Digest(p, t) \notin TornDigest(p)
<1>1. NoDigest \notin {"file"} \X Content /\ NoDigest \notin {"tree"} \X Tree
  BY DataAssumption
<1>2. \A u \in Payload(p) :
        Digest(p, u) \in {"file"} \X Content \/ Digest(p, u) \in {"tree"} \X Tree
  BY PayloadFacts DEF Digest, RawDigest
<1>3. \A u \in Torn(p) : u \in Payload(p) /\ u \notin Whole(p)
  BY DEF Torn
<1>4. ASSUME NEW u \in Payload(p), Digest(p, u) = Digest(p, t) PROVE u = t
  <2>1. CASE p \in Directory
    BY <1>4, <2>1 DEF Digest
  <2>2. CASE p \notin Directory
    <3>1. u \in [{UrlName} -> Content] /\ t \in [{UrlName} -> Content]
      BY <2>2 DEF Payload
    <3>2. u[UrlName] = t[UrlName]
      BY <1>4, <2>2 DEF Digest, RawDigest
    <3>3. QED
      BY <3>1, <3>2
  <2>3. QED
    BY <2>1, <2>2
<1>5. QED
  BY <1>1, <1>2, <1>3, <1>4 DEF SomeDigest, TornDigest

LEMMA NoDigestFacts == \A p \in Product : NoDigest \notin TornDigest(p)
BY DigestFacts DEF TornDigest, Torn

LEMMA RawFacts == \A c \in Content : RawDigest(c) \in SomeDigest
BY DEF RawDigest, SomeDigest

\* A file written leaves the others in its directory as they were.
LEMMA WriteFacts ==
  ASSUME NEW p \in Product, NEW t \in Payload(p) \cup {NoFile}, NEW c \in Content
  PROVE  /\ Write(t, c) \in Payload(p)
         /\ UrlName \in DOMAIN Write(t, c) /\ Write(t, c)[UrlName] = c
         /\ \A n \in DOMAIN Write(t, c) \ {UrlName} :
              t # NoFile /\ n \in DOMAIN t /\ Write(t, c)[n] = t[n]
<1> DEFINE names == {UrlName} \cup (IF t = NoFile THEN {} ELSE DOMAIN t)
<1>1. /\ Write(t, c) = [n \in names |-> IF n = UrlName THEN c ELSE t[n]]
      /\ UrlName \in Name
  BY DataAssumption DEF Write
<1>2. Write(t, c) \in Payload(p)
  <2>1. CASE t = NoFile
    <3>1. names = {UrlName}
      BY <2>1
    <3>2. Write(t, c) \in [{UrlName} -> Content]
      BY <1>1, <3>1
    <3>3. QED
      BY <1>1, <3>2 DEF Payload, Tree
  <2>2. CASE t # NoFile /\ p \notin Directory
    <3>1. t \in [{UrlName} -> Content]
      BY <2>2 DEF Payload
    <3>2. names = {UrlName}
      BY <2>2, <3>1
    <3>3. Write(t, c) \in [{UrlName} -> Content]
      BY <1>1, <3>2
    <3>4. QED
      BY <2>2, <3>3 DEF Payload
  <2>3. CASE t # NoFile /\ p \in Directory
    <3>1. PICK N \in SUBSET Name : t \in [N -> Content]
      BY <2>3 DEF Payload, Tree
    <3>2. names \in SUBSET Name
      BY <1>1, <2>3, <3>1
    <3>3. Write(t, c) \in [names -> Content]
      BY <1>1, <2>3, <3>1
    <3>4. QED
      BY <2>3, <3>2, <3>3 DEF Payload, Tree
  <2>4. QED
    BY <2>1, <2>2, <2>3
<1>3. QED
  BY <1>1, <1>2

\* What a status of a product, or a record of it, says of its files.
LEMMA StatusFacts ==
  ASSUME NEW p \in Product, NEW r \in Record,
         NEW t \in Payload(p) \cup {NoFile}, NEW s \in Sidecar \cup {NoFile},
         NEW unpinned \in BOOLEAN
  PROVE  LET status == StatusOf(p, r, t, s, unpinned)
         IN /\ status \in Status
            /\ status \notin {"missing", "optional_missing"} =>
                 t \in Payload(p) /\ s \in Sidecar
            /\ status = "verified" =>
                 /\ Expected(r) \in {Digest(p, t), NoDigest}
                 /\ Agrees(r, s)
BY DEF StatusOf, Status

\* The record of a product after staging: the pin it had, files that hold what it
\* calls verified, and nothing short unless it was before.
LEMMA StagedFacts ==
  ASSUME NEW p \in Product, NEW r \in Record,
         payload[p] \in Payload(p) \cup {NoFile}, sidecar[p] \in Sidecar \cup {NoFile}
  PROVE  /\ Staged(p, r) \in Record
         /\ r.pin # NoDigest => Staged(p, r).pin = r.pin
         /\ Staged(p, r).status = "verified" =>
              /\ payload[p] \in Payload(p) /\ sidecar[p] \in Sidecar
              /\ Staged(p, r).pin = Digest(p, payload[p])
              /\ Staged(p, r).raw = Digest(p, payload[p])
              /\ Staged(p, r).processed = Digest(p, payload[p])
              /\ Staged(p, r).prepared \in {Command, sidecar[p].prepared}
              /\ sidecar[p].describes
         /\ /\ r.pin \notin TornDigest(p) /\ r.processed \notin TornDigest(p)
            /\ payload[p] \notin Torn(p)
            => /\ Staged(p, r).pin \notin TornDigest(p)
               /\ Staged(p, r).processed \notin TornDigest(p)
<1> DEFINE status == StatusOf(p, r, payload[p], sidecar[p], TRUE)
           found == Digest(p, payload[p])
<1> HIDE DEF status, found
<1>1. /\ status \in Status
      /\ status \notin {"missing", "optional_missing"} =>
           payload[p] \in Payload(p) /\ sidecar[p] \in Sidecar
      /\ status = "verified" =>
           Expected(r) \in {found, NoDigest} /\ Agrees(r, sidecar[p])
  BY StatusFacts DEF status, found
<1>2. NoFile \notin Payload(p) /\ NoFile \notin Sidecar
  BY PayloadFacts, DataAssumption
<1>3. CASE status \in {"missing", "optional_missing"}
  <2>1. Staged(p, r) = [r EXCEPT !.status = status]
    BY <1>3 DEF Staged, status, found
  <2>2. /\ [r EXCEPT !.status = status] \in Record
        /\ [r EXCEPT !.status = status].status = status
        /\ [r EXCEPT !.status = status].pin = r.pin
        /\ [r EXCEPT !.status = status].processed = r.processed
    BY <1>1 DEF Record
  <2>3. QED
    BY <1>3, <2>1, <2>2
<1>4. CASE status \notin {"missing", "optional_missing"}
  <2> DEFINE new ==
        [pin |-> IF Expected(r) = NoDigest THEN found ELSE Expected(r),
         raw |-> IF status = "verified" THEN found ELSE r.raw,
         processed |-> IF status = "verified" THEN found ELSE r.processed,
         prepared |-> IF status = "verified" /\ r.prepared = NoLabel THEN Command
                      ELSE r.prepared,
         status |-> status]
  <2>1. Staged(p, r) = new
    BY <1>4 DEF Staged, status, found
  <2>2. payload[p] \in Payload(p) /\ sidecar[p] \in Sidecar
    BY <1>1, <1>4
  <2>3. /\ found \in SomeDigest /\ found # NoDigest
        /\ payload[p] \notin Torn(p) => found \notin TornDigest(p)
    BY <2>2, DigestFacts DEF found, Torn
  <2>4. /\ r.pin \in SomeDigest /\ r.raw \in SomeDigest /\ r.processed \in SomeDigest
        /\ r.prepared \in Label /\ Command \in Label
    BY DEF Record, Label
  <2>5. Expected(r) \in SomeDigest /\ (r.pin # NoDigest => Expected(r) = r.pin)
    BY <2>4 DEF Expected
  <2>6. new \in Record
    BY <1>1, <2>3, <2>4, <2>5 DEF Record
  <2>7. r.pin # NoDigest => new.pin = r.pin
    BY <2>5
  <2>8. ASSUME new.status = "verified"
        PROVE  /\ new.pin = found /\ new.raw = found /\ new.processed = found
               /\ new.prepared \in {Command, sidecar[p].prepared}
               /\ sidecar[p].describes
    <3>1. status = "verified"
      BY <2>8
    <3>2. Expected(r) \in {found, NoDigest} /\ Agrees(r, sidecar[p])
      BY <1>1, <3>1
    <3>3. sidecar[p].describes /\ r.prepared \in {NoLabel, sidecar[p].prepared}
      BY <3>2 DEF Agrees
    <3>4. QED
      BY <3>1, <3>2, <3>3
  <2>9. ASSUME r.pin \notin TornDigest(p), r.processed \notin TornDigest(p),
               payload[p] \notin Torn(p)
        PROVE  new.pin \notin TornDigest(p) /\ new.processed \notin TornDigest(p)
    <3>1. Expected(r) \notin TornDigest(p) /\ found \notin TornDigest(p)
      BY <2>3, <2>9 DEF Expected
    <3>2. QED
      BY <2>9, <3>1
  <2>10. QED
    BY <2>1, <2>2, <2>6, <2>7, <2>8, <2>9 DEF found
<1>5. QED
  BY <1>3, <1>4
-------------------------------------------------------------------------------
(* The inductive invariant *)

\* Where a command is, and what a download has left of the products behind it.
Control ==
  /\ pc = "idle" <=> mode = "none"
  /\ manifest = Lost => pc = "idle"
  /\ pc \in {"fetch", "describe"} => at \in Product /\ Fetched(at) /\ ~intact[at]
  /\ pc = "describe" =>
       payload[at] \in Payload(at) /\ (mode = "download" => UrlName \in DOMAIN payload[at])
  /\ mode = "stage" => pc = "write"
  /\ mode = "download" =>
       \A p \in Product \ NoUrl :
         pc = "write" \/ p < at =>
           /\ payload[p] \in Payload(p)
           /\ sidecar[p] \in Sidecar
           /\ sidecar[p].processed = Digest(p, payload[p])

\* The record of a product whose files nobody has touched since it was written.
RecordHolds(p) ==
  manifest[p].status = "verified" /\ intact[p] =>
    /\ payload[p] \in Payload(p) /\ sidecar[p] \in Sidecar
    /\ manifest[p].pin = Digest(p, payload[p])
    /\ manifest[p].raw = Digest(p, payload[p])
    /\ manifest[p].processed = Digest(p, payload[p])
    /\ manifest[p].prepared \in {Command, sidecar[p].prepared}
    /\ sidecar[p].describes

\* A short file is one that is just being downloaded.
NoneShort(p) ==
  /\ payload[p] # NoFile =>
       \A n \in DOMAIN payload[p] :
         payload[p][n] = Partial => n = UrlName /\ pc = "fetch" /\ mode = "download" /\ at = p
  /\ manifest # Lost =>
       manifest[p].pin \notin TornDigest(p) /\ manifest[p].processed \notin TornDigest(p)

IInv ==
  /\ TypeOK
  /\ Control
  /\ manifest # Lost => \A p \in Product : RecordHolds(p)
  /\ faults = 0 => \A p \in Product : NoneShort(p)
-------------------------------------------------------------------------------
(* The record a command ends with *)

LEMMA FinalFacts ==
  ASSUME TypeOK, Control, pc = "write", NEW p \in Product
  PROVE  /\ manifest # Lost /\ manifest[p] \in Record
         /\ Final(p) \in Record
         /\ manifest[p].pin # NoDigest => Final(p).pin = manifest[p].pin
         /\ Final(p).status = "verified" =>
              /\ payload[p] \in Payload(p) /\ sidecar[p] \in Sidecar
              /\ Final(p).pin = Digest(p, payload[p])
              /\ Final(p).raw = Digest(p, payload[p])
              /\ Final(p).processed = Digest(p, payload[p])
              /\ Final(p).prepared \in {Command, sidecar[p].prepared}
              /\ sidecar[p].describes
         /\ /\ manifest[p].pin \notin TornDigest(p)
            /\ manifest[p].processed \notin TornDigest(p)
            /\ payload[p] \notin Torn(p)
            => /\ Final(p).pin \notin TornDigest(p)
               /\ Final(p).processed \notin TornDigest(p)
<1> DEFINE r == manifest[p]
           s == sidecar[p]
<1>1. manifest # Lost /\ r \in Record
  BY DEF Control, TypeOK
<1>2. payload[p] \in Payload(p) \cup {NoFile} /\ s \in Sidecar \cup {NoFile}
  BY DEF TypeOK
<1>3. r.pin \in SomeDigest /\ r.processed \in SomeDigest
  BY <1>1 DEF Record
<1>4. CASE mode = "download" /\ p \in NoUrl
  <2>1. Final(p) = [r EXCEPT !.status = "optional_missing"]
    BY <1>4 DEF Final, Downloaded
  <2>2. /\ [r EXCEPT !.status = "optional_missing"] \in Record
        /\ [r EXCEPT !.status = "optional_missing"].status = "optional_missing"
        /\ [r EXCEPT !.status = "optional_missing"].pin = r.pin
        /\ [r EXCEPT !.status = "optional_missing"].processed = r.processed
    BY <1>1 DEF Record, Status
  <2>3. QED
    BY <1>1, <2>1, <2>2
<1>5. CASE mode = "download" /\ p \notin NoUrl
  <2> DEFINE r2 == [pin |-> IF r.pin # NoDigest THEN r.pin ELSE s.processed,
                    raw |-> s.raw, processed |-> s.processed, prepared |-> s.prepared,
                    status |-> r.status]
  <2>1. Final(p) = Staged(p, r2)
    BY <1>5 DEF Final, Downloaded
  <2>2. /\ payload[p] \in Payload(p) /\ s \in Sidecar
        /\ s.processed = Digest(p, payload[p])
    BY <1>5 DEF Control
  <2>3. r2 \in Record
    BY <1>1, <1>3, <2>2 DEF Record, Sidecar
  <2>4. payload[p] \notin Torn(p) => s.processed \notin TornDigest(p)
    BY <2>2, DigestFacts DEF Torn
  <2>5. /\ r.pin # NoDigest => r2.pin # NoDigest /\ r2.pin = r.pin
        /\ r.pin \notin TornDigest(p) /\ payload[p] \notin Torn(p) =>
             r2.pin \notin TornDigest(p) /\ r2.processed \notin TornDigest(p)
    BY <2>4
  <2> HIDE DEF r2
  <2>6. QED
    BY <1>1, <1>2, <2>1, <2>3, <2>5, StagedFacts
<1>6. CASE mode # "download" /\ ~(mode = "copy" /\ offer[p] # NoCandidate)
  <2>1. Final(p) = Staged(p, r)
    BY <1>6 DEF Final
  <2>2. QED
    BY <1>1, <1>2, <2>1, StagedFacts
<1>7. CASE mode = "copy" /\ offer[p] # NoCandidate
  <2> DEFINE r2 == [r EXCEPT !.pin = Expected(r)]
  <2>1. Final(p) = Staged(p, r2)
    BY <1>7 DEF Final
  <2>2. /\ Expected(r) \in SomeDigest
        /\ r.pin # NoDigest => Expected(r) = r.pin
        /\ r.pin \notin TornDigest(p) /\ r.processed \notin TornDigest(p) =>
             Expected(r) \notin TornDigest(p)
    BY <1>3 DEF Expected
  <2>3. r2 \in Record /\ r2.pin = Expected(r) /\ r2.processed = r.processed
    BY <1>1, <2>2 DEF Record
  <2> HIDE DEF r2
  <2>4. QED
    BY <1>1, <1>2, <2>1, <2>2, <2>3, StagedFacts
<1>8. QED
  BY <1>4, <1>5, <1>6, <1>7
-------------------------------------------------------------------------------
(* The invariant is inductive *)

LEMMA NewManifestFacts ==
  ASSUME NEW m \in NewManifest
  PROVE  /\ m \in [Product -> Record]
         /\ m # Lost
         /\ \A p \in Product :
              /\ m[p].status # "verified"
              /\ m[p].pin \notin TornDigest(p) /\ m[p].processed \notin TornDigest(p)
<1>1. /\ m \in [Product -> UNION {Template[p] : p \in Product}]
      /\ \A p \in Product : m[p] \in Template[p]
  BY DEF NewManifest
<1>2. \A p \in Product : m[p] \in Record /\ m[p].status = "none"
  BY <1>1, InputAssumption
<1>3. m \in [Product -> Record]
  BY <1>1, <1>2
<1>4. m # Lost
  BY <1>3, DataAssumption
<1>5. ASSUME NEW p \in Product
      PROVE  m[p].pin \notin TornDigest(p) /\ m[p].processed \notin TornDigest(p)
  <2>1. {m[p].pin, m[p].processed} \subseteq {Digest(p, t) : t \in Whole(p)} \cup {NoDigest}
    BY <1>1, InputAssumption
  <2>2. \A t \in Whole(p) : Digest(p, t) \notin TornDigest(p)
    BY DigestFacts DEF Whole
  <2>3. QED
    BY <2>1, <2>2, NoDigestFacts
<1>6. QED
  BY <1>2, <1>3, <1>4, <1>5

\* The types of the payloads, which a product's new payload keeps.
FilesTyped ==
  /\ payload \in [Product -> Tree \cup {NoFile}]
  /\ \A p \in Product : payload[p] \in Payload(p) \cup {NoFile}

LEMMA WrittenTyped ==
  ASSUME FilesTyped, NEW p \in Product, NEW t \in Payload(p) \cup {NoFile},
         payload' = [payload EXCEPT ![p] = t]
  PROVE  FilesTyped' /\ \A q \in Product \ {p} : payload'[q] = payload[q]
BY PayloadFacts DEF FilesTyped

LEMMA NoOfferIsOffer == NoOffer \in Offer
BY DEF NoOffer, Offer

LEMMA Initially == Init => IInv
<1> SUFFICES ASSUME Init PROVE IInv
  OBVIOUS
<1>1. /\ manifest \in [Product -> Record]
      /\ manifest # Lost
      /\ \A p \in Product :
           /\ manifest[p].status # "verified"
           /\ manifest[p].pin \notin TornDigest(p)
           /\ manifest[p].processed \notin TornDigest(p)
  BY NewManifestFacts DEF Init
<1>2. ProductCount \in Nat \ {0}
  BY ProductAssumption
<1>3. TypeOK
  BY <1>1, <1>2, NoOfferIsOffer DEF Init, TypeOK
<1>4. Control
  BY <1>1 DEF Init, Control
<1>5. \A p \in Product : RecordHolds(p)
  BY <1>1 DEF RecordHolds
<1>6. \A p \in Product : NoneShort(p)
  BY <1>1 DEF Init, NoneShort
<1>7. QED
  BY <1>3, <1>4, <1>5, <1>6 DEF IInv

LEMMA StartKeeps ==
  ASSUME IInv, StartDownload \/ (\E o \in Offer : StartCopy(o)) \/ StartStage
  PROVE  IInv'
<1>1. /\ UNCHANGED <<manifest, cache, world>>
      /\ pc = "idle" /\ manifest # Lost /\ at' = 1
      /\ mode' \in {"download", "copy", "stage"}
      /\ pc' \in {"next", "write"}
      /\ mode' = "stage" => pc' = "write"
      /\ mode' = "download" => pc' = "next"
      /\ offer' \in Offer
  BY DEF IInv, TypeOK, StartDownload, StartCopy, StartStage
<1>2. TypeOK'
  BY <1>1, ProductAssumption DEF IInv, TypeOK, cache, world
<1>3. Control'
  <2>1. \A p \in Product : ~(p < at')
    BY <1>1, ProductAssumption DEF Product
  <2>2. QED
    BY <1>1, <2>1 DEF IInv, Control
<1>4. \A p \in Product : RecordHolds(p) => RecordHolds(p)'
  BY <1>1 DEF RecordHolds, cache
<1>5. \A p \in Product : NoneShort(p) => NoneShort(p)'
  BY <1>1 DEF NoneShort, cache
<1>6. manifest' = manifest /\ faults' = faults
  BY <1>1 DEF world
<1>7. QED
  BY <1>2, <1>3, <1>4, <1>5, <1>6 DEF IInv

LEMMA NextProductKeeps ==
  ASSUME IInv, NextProduct
  PROVE  IInv'
<1>1. /\ UNCHANGED <<manifest, sidecar, world, mode, offer>>
      /\ pc = "next" /\ manifest # Lost /\ mode \in {"download", "copy"}
      /\ manifest \in [Product -> Record] /\ FilesTyped
      /\ intact \in [Product -> BOOLEAN]
      /\ ProductCount \in Nat \ {0} /\ at \in 1 .. ProductCount + 1
  BY ProductAssumption DEF IInv, TypeOK, FilesTyped, Control, NextProduct, cache
<1>2. Partial \in Content
  BY DEF Content
<1>3. CASE at \notin Product
  <2>1. pc' = "write" /\ UNCHANGED <<at, payload, intact>>
    BY <1>3 DEF NextProduct, cache
  <2>2. TypeOK'
    BY <1>1, <2>1 DEF IInv, TypeOK, world
  <2>3. \A p \in Product : p < at
    BY <1>1, <1>3 DEF Product
  <2>4. Control'
    BY <1>1, <2>1, <2>3 DEF IInv, Control
  <2>5. \A p \in Product : (RecordHolds(p) => RecordHolds(p)') /\ (NoneShort(p) => NoneShort(p)')
    BY <1>1, <2>1 DEF RecordHolds, NoneShort
  <2>6. QED
    BY <1>1, <2>2, <2>4, <2>5 DEF IInv, world
<1>4. CASE at \in Product /\ ~Fetched(at)
  <2>1. at' = at + 1 /\ UNCHANGED <<pc, payload, intact>>
    BY <1>4 DEF NextProduct, cache
  <2>2. at' \in 1 .. ProductCount + 1
    BY <1>1, <1>4, <2>1 DEF Product
  <2>3. TypeOK'
    BY <1>1, <2>1, <2>2 DEF IInv, TypeOK, world
  <2>4. mode = "download" => at \in NoUrl
    BY <1>4 DEF Fetched
  <2>5. \A p \in Product : p < at' => p < at \/ p = at
    BY <1>1, <2>1 DEF Product
  <2>6. Control'
    BY <1>1, <2>1, <2>4, <2>5 DEF IInv, Control
  <2>7. \A p \in Product : (RecordHolds(p) => RecordHolds(p)') /\ (NoneShort(p) => NoneShort(p)')
    BY <1>1, <2>1 DEF RecordHolds, NoneShort
  <2>8. QED
    BY <1>1, <2>3, <2>6, <2>7 DEF IInv, world
<1>5. CASE at \in Product /\ Fetched(at)
  <2>1. /\ pc' = "fetch" /\ at' = at
        /\ mode = "download" => payload' = [payload EXCEPT ![at] = Write(@, Partial)]
        /\ mode # "download" => payload' = payload
        /\ intact' = [intact EXCEPT ![at] = FALSE]
    BY <1>5 DEF NextProduct
  <2>2. payload[at] \in Payload(at) \cup {NoFile}
    BY <1>5, <1>1 DEF FilesTyped
  <2>3. FilesTyped' /\ \A p \in Product \ {at} : payload'[p] = payload[p]
    <3>1. CASE mode = "download"
      <4>1. payload' = [payload EXCEPT ![at] = Write(payload[at], Partial)]
        BY <2>1, <3>1
      <4>2. Write(payload[at], Partial) \in Payload(at)
        BY <1>2, <1>5, <2>2, WriteFacts
      <4>3. QED
        BY <1>1, <1>5, <4>1, <4>2, WrittenTyped
    <3>2. CASE mode # "download"
      BY <1>1, <2>1, <3>2 DEF FilesTyped
    <3>3. QED
      BY <3>1, <3>2
  <2>4. /\ intact' \in [Product -> BOOLEAN] /\ ~intact'[at]
        /\ \A p \in Product \ {at} : intact'[p] = intact[p]
    BY <1>1, <1>5, <2>1
  <2>5. TypeOK'
    BY <1>1, <2>1, <2>3, <2>4 DEF IInv, TypeOK, FilesTyped, world
  <2>6. \A p \in Product : p < at => p # at
    BY <1>1 DEF Product
  <2>7. Fetched(at)'
    BY <1>1, <1>5, <2>1 DEF Fetched
  <2>8. Control'
    BY <1>1, <1>5, <2>1, <2>3, <2>4, <2>6, <2>7 DEF IInv, Control
  <2>9. \A p \in Product : RecordHolds(p) => RecordHolds(p)'
    BY <1>1, <2>3, <2>4 DEF RecordHolds
  <2>10. ASSUME NEW p \in Product, NoneShort(p) PROVE NoneShort(p)'
    <3>1. CASE p = at /\ mode = "download"
      <4>1. payload'[p] = Write(payload[p], Partial)
        BY <1>1, <2>1, <3>1 DEF FilesTyped
      <4>2. QED
        BY <1>1, <1>2, <2>1, <2>2, <2>10, <3>1, <4>1, WriteFacts DEF NoneShort
    <3>2. CASE ~(p = at /\ mode = "download")
      <4>1. payload'[p] = payload[p]
        BY <2>1, <2>3, <3>2
      <4>2. QED
        BY <1>1, <2>10, <4>1 DEF NoneShort
    <3>3. QED
      BY <3>1, <3>2
  <2>11. QED
    BY <1>1, <2>5, <2>8, <2>9, <2>10 DEF IInv, world
<1>6. QED
  BY <1>3, <1>4, <1>5

\* What a copy may take of a candidate.
LEMMA OfferFacts ==
  ASSUME TypeOK, NEW p \in Product, offer[p] # NoCandidate
  PROVE  offer[p].copy \in Whole(p) /\ offer[p].sidecar \in Sidecar \cup {NoFile}
<1>1. offer[p] \in Candidate[p]
  BY DEF TypeOK, Offer
<1>2. Candidate[p] \subseteq
        [content : Whole(p), copy : Whole(p), sidecar : Sidecar \cup {NoFile}]
  BY InputAssumption
<1>3. QED
  BY <1>1, <1>2

LEMMA ArrivedFacts ==
  ASSUME TypeOK, NEW p \in Product, offer[p] # NoCandidate
  PROVE  {Cleared(p), Arrived(p)} \subseteq Sidecar \cup {NoFile}
<1>1. sidecar[p] \in Sidecar \cup {NoFile}
  BY DEF TypeOK
<1>2. QED
  BY <1>1, OfferFacts DEF Cleared, Arrived

LEMMA FetchKeeps ==
  ASSUME IInv, Fetch
  PROVE  IInv'
<1>1. /\ UNCHANGED <<manifest, intact, world, mode, at, offer>>
      /\ pc = "fetch" /\ pc' = "describe" /\ manifest # Lost
      /\ at \in Product /\ Fetched(at) /\ ~intact[at]
      /\ FilesTyped /\ payload[at] \in Payload(at) \cup {NoFile}
      /\ sidecar \in [Product -> Sidecar \cup {NoFile}]
      /\ ProductCount \in Nat \ {0} /\ at \in 1 .. ProductCount + 1
      /\ mode \in {"download", "copy"}
  BY ProductAssumption DEF IInv, TypeOK, FilesTyped, Control, Fetch
<1>2. PICK new \in Payload(at) :
        /\ payload' = [payload EXCEPT ![at] = new]
        /\ mode = "download" => UrlName \in DOMAIN new
        /\ \A n \in DOMAIN new :
             new[n] = Partial => /\ n # UrlName /\ payload[at] # NoFile
                                 /\ n \in DOMAIN payload[at] /\ payload[at][n] = Partial
  <2>1. CASE mode = "download"
    <3>1. upstream[at] \in Content /\ upstream[at] # Partial
      BY <1>1, <2>1, DataAssumption DEF IInv, TypeOK, Fetched, Content
    <3>2. payload' = [payload EXCEPT ![at] = Write(payload[at], upstream[at])]
      BY <2>1 DEF Fetch
    <3>3. /\ Write(payload[at], upstream[at]) \in Payload(at)
          /\ UrlName \in DOMAIN Write(payload[at], upstream[at])
          /\ Write(payload[at], upstream[at])[UrlName] = upstream[at]
          /\ \A n \in DOMAIN Write(payload[at], upstream[at]) \ {UrlName} :
               /\ payload[at] # NoFile /\ n \in DOMAIN payload[at]
               /\ Write(payload[at], upstream[at])[n] = payload[at][n]
      BY <1>1, <3>1, WriteFacts
    <3>4. \A n \in DOMAIN Write(payload[at], upstream[at]) :
            Write(payload[at], upstream[at])[n] = Partial =>
              /\ n # UrlName /\ payload[at] # NoFile
              /\ n \in DOMAIN payload[at] /\ payload[at][n] = Partial
      BY <3>1, <3>3
    <3>5. QED
      BY <3>2, <3>3, <3>4
  <2>2. CASE mode = "copy"
    <3>1. offer[at].copy \in Whole(at)
      BY <1>1, <2>2, OfferFacts DEF IInv, Fetched
    <3>2. payload' = [payload EXCEPT ![at] = offer[at].copy]
      BY <2>2 DEF Fetch
    <3>3. QED
      BY <2>2, <3>1, <3>2 DEF Whole
  <2>3. QED
    BY <1>1, <2>1, <2>2
<1>3. /\ sidecar' \in [Product -> Sidecar \cup {NoFile}]
      /\ \A p \in Product \ {at} : sidecar'[p] = sidecar[p]
  <2>1. CASE mode = "download"
    BY <1>1, <2>1 DEF Fetch
  <2>2. CASE mode = "copy"
    <3>1. Arrived(at) \in Sidecar \cup {NoFile}
      BY <1>1, <2>2, ArrivedFacts DEF IInv, Fetched
    <3>2. sidecar' = [sidecar EXCEPT ![at] = Arrived(at)]
      BY <2>2 DEF Fetch
    <3>3. QED
      BY <1>1, <3>1, <3>2
  <2>3. QED
    BY <1>1, <2>1, <2>2
<1>4. FilesTyped' /\ payload'[at] = new /\ \A p \in Product \ {at} : payload'[p] = payload[p]
  <2>1. payload'[at] = new
    BY <1>1, <1>2 DEF FilesTyped
  <2>2. QED
    BY <1>1, <1>2, <2>1, WrittenTyped
<1>5. TypeOK'
  BY <1>1, <1>3, <1>4 DEF IInv, TypeOK, FilesTyped, world
<1>6. Fetched(at)' /\ \A p \in Product : p < at => p # at
  BY <1>1 DEF Fetched, Product
<1>7. Control'
  BY <1>1, <1>2, <1>3, <1>4, <1>6 DEF IInv, Control
<1>8. \A p \in Product : RecordHolds(p) => RecordHolds(p)'
  BY <1>1, <1>3, <1>4 DEF RecordHolds
<1>9. \A p \in Product : NoneShort(p) => NoneShort(p)'
  BY <1>1, <1>2, <1>4 DEF NoneShort
<1>10. QED
  BY <1>1, <1>5, <1>7, <1>8, <1>9 DEF IInv, world

LEMMA NowIsStamp ==
  ASSUME TypeOK, manifest # Lost, NEW p \in Product
  PROVE  Now(p) \in Stamp
<1> DEFINE x == manifest[p].prepared
           y == IF sidecar[p] = NoFile THEN NoLabel ELSE sidecar[p].prepared
<1>1. manifest[p] \in Record /\ sidecar[p] \in Sidecar \cup {NoFile}
  BY DEF TypeOK
<1>2. x \in Label /\ y \in Label
  BY <1>1 DEF Record, Sidecar, Label
<1>3. \E s \in Stamp : s # x /\ s # y
  BY <1>2, StampAssumption
<1>4. \E s \in Stamp : s # manifest[p].prepared /\ (sidecar[p] = NoFile \/ s # sidecar[p].prepared)
  BY <1>3
<1>5. QED
  BY <1>4 DEF Now

LEMMA DescribeKeeps ==
  ASSUME IInv, Describe
  PROVE  IInv'
<1>1. /\ UNCHANGED <<manifest, payload, intact, world, mode, offer>>
      /\ pc = "describe" /\ pc' = "next" /\ at' = at + 1 /\ manifest # Lost
      /\ at \in Product /\ Fetched(at) /\ ~intact[at] /\ payload[at] \in Payload(at)
      /\ mode = "download" => UrlName \in DOMAIN payload[at]
      /\ sidecar \in [Product -> Sidecar \cup {NoFile}]
      /\ ProductCount \in Nat \ {0} /\ at \in 1 .. ProductCount + 1
      /\ mode \in {"download", "copy"}
  BY ProductAssumption DEF IInv, TypeOK, Control, Describe
<1> DEFINE made == [raw |-> RawDigest(payload[at][UrlName]), processed |-> Digest(at, payload[at]),
                    prepared |-> Now(at), describes |-> TRUE]
           new == IF mode = "download" THEN made
                  ELSE IF offer[at].sidecar # NoFile THEN offer[at].sidecar ELSE sidecar[at]
<1>2. ASSUME mode = "download"
      PROVE  made \in Sidecar /\ made.processed = Digest(at, payload[at])
  <2>1. Now(at) \in Label
    BY <1>1, NowIsStamp DEF IInv, Label
  <2>2. payload[at][UrlName] \in Content
    BY <1>1, <1>2, PayloadFacts DEF Tree
  <2>3. RawDigest(payload[at][UrlName]) \in SomeDigest /\ Digest(at, payload[at]) \in SomeDigest
    BY <1>1, <2>2, DigestFacts, RawFacts
  <2>4. QED
    BY <2>1, <2>3 DEF Sidecar
<1>3. new \in Sidecar \cup {NoFile} /\ (mode = "download" => new = made)
  <2>1. CASE mode = "download"
    BY <1>2, <2>1
  <2>2. CASE mode # "download"
    <3>1. offer[at].sidecar \in Sidecar \cup {NoFile}
      BY <1>1, <2>2, OfferFacts DEF IInv, Fetched
    <3>2. QED
      BY <1>1, <2>2, <3>1
  <2>3. QED
    BY <2>1, <2>2
<1>4. sidecar' = [sidecar EXCEPT ![at] = new]
  BY <1>1 DEF Describe
<1> HIDE DEF new, made
<1>5. /\ sidecar' \in [Product -> Sidecar \cup {NoFile}]
      /\ sidecar'[at] = new
      /\ \A p \in Product \ {at} : sidecar'[p] = sidecar[p]
  BY <1>1, <1>3, <1>4
<1>6. at' \in 1 .. ProductCount + 1 /\ \A p \in Product : p < at' => p < at \/ p = at
  BY <1>1 DEF Product
<1>7. TypeOK'
  BY <1>1, <1>5, <1>6 DEF IInv, TypeOK, world
<1>8. \A p \in Product : p < at => p # at
  BY <1>1 DEF Product
<1>9. Control'
  BY <1>1, <1>2, <1>3, <1>5, <1>6, <1>8 DEF IInv, Control
<1>10. \A p \in Product : RecordHolds(p) => RecordHolds(p)'
  BY <1>1, <1>5 DEF RecordHolds
<1>11. \A p \in Product : NoneShort(p) => NoneShort(p)'
  BY <1>1 DEF NoneShort
<1>12. QED
  BY <1>1, <1>7, <1>9, <1>10, <1>11 DEF IInv, world

\* A command that ends leaves the control part with nothing to say.
LEMMA EndedControl ==
  ASSUME mode' = "none", pc' = "idle"
  PROVE  Control'
BY DEF Control

LEMMA WriteManifestKeeps ==
  ASSUME IInv, WriteManifest
  PROVE  IInv'
<1>1. /\ pc = "write" /\ pc' = "idle" /\ mode' = "none" /\ at' = 1 /\ offer' = NoOffer
      /\ manifest' = [p \in Product |-> Final(p)]
      /\ intact' = [p \in Product |-> TRUE]
      /\ UNCHANGED <<payload, sidecar, world>>
      /\ TypeOK /\ Control
  BY DEF IInv, WriteManifest, End
<1>2. /\ manifest' \in [Product -> Record]
      /\ \A p \in Product : manifest'[p] = Final(p)
  BY <1>1, FinalFacts
<1>3. TypeOK'
  BY <1>1, <1>2, NoOfferIsOffer, ProductAssumption DEF TypeOK, world
<1>4. Control'
  BY <1>1, EndedControl
<1>5. \A p \in Product : RecordHolds(p)'
  BY <1>1, <1>2, FinalFacts DEF RecordHolds
<1>6. ASSUME NEW p \in Product, NoneShort(p) PROVE NoneShort(p)'
  <2>1. manifest # Lost /\ payload[p] \notin Torn(p)
    BY <1>1, <1>6, FinalFacts, PayloadFacts DEF NoneShort, Torn, Whole
  <2>2. manifest[p].pin \notin TornDigest(p) /\ manifest[p].processed \notin TornDigest(p)
    BY <1>6, <2>1 DEF NoneShort
  <2>3. Final(p).pin \notin TornDigest(p) /\ Final(p).processed \notin TornDigest(p)
    BY <1>1, <2>1, <2>2, FinalFacts
  <2>4. payload[p] # NoFile => \A n \in DOMAIN payload[p] : payload[p][n] # Partial
    BY <1>1, <1>6 DEF NoneShort
  <2>5. payload' = payload /\ manifest'[p] = Final(p)
    BY <1>1, <1>2
  <2>6. QED
    BY <2>3, <2>4, <2>5 DEF NoneShort
<1>7. faults' = faults
  BY <1>1 DEF world
<1>8. QED
  BY <1>3, <1>4, <1>5, <1>6, <1>7 DEF IInv

LEMMA LeftoverFacts ==
  ASSUME TypeOK, Control, pc # "idle", at \in Product, NEW left \in Leftover(at)
  PROVE  /\ left[1] \in Payload(at) \cup {NoFile} /\ left[2] \in Sidecar \cup {NoFile}
         /\ pc \notin {"fetch", "describe"} =>
              payload[at] \in {left[1], NoFile} /\ left[2] = sidecar[at]
<1> DEFINE old == payload[at]
           empty == [raw |-> NoDigest, processed |-> NoDigest, prepared |-> NoLabel,
                     describes |-> FALSE]
           copied == pc = "fetch" /\ mode = "copy"
<1>1. old \in Payload(at) \cup {NoFile} /\ sidecar[at] \in Sidecar \cup {NoFile}
  BY DEF TypeOK
<1>2. empty \in Sidecar
  BY DEF Sidecar, SomeDigest, Label
<1>3. at \in Directory => [n \in {} |-> Partial] \in Payload(at)
  <2>1. {} \in SUBSET Name /\ [n \in {} |-> Partial] \in [{} -> Content]
    OBVIOUS
  <2>2. [n \in {} |-> Partial] \in Tree
    BY <2>1 DEF Tree
  <2>3. QED
    BY <2>2 DEF Payload
<1>4. copied => {Cleared(at), Arrived(at)} \subseteq Sidecar \cup {NoFile}
  BY ArrivedFacts DEF Control, Fetched
<1>5. \A t, short : Remains(at, t, short) \subseteq Payload(at)
  BY DEF Remains
<1>6. \/ left = <<old, sidecar[at]>>
      \/ /\ left = <<[n \in {} |-> Partial], sidecar[at]>>
         /\ at \in Directory /\ old = NoFile
      \/ copied /\ left \in Remains(at, old, {}) \X {sidecar[at], Cleared(at)}
      \/ copied /\ left = <<NoFile, Cleared(at)>>
      \/ copied /\ left \in Remains(at, offer[at].copy, {Partial}) \X {Cleared(at), Arrived(at)}
      \/ pc = "describe" /\ left \in {old} \X {empty, NoFile}
  BY DEF Leftover
<1> HIDE DEF old, empty
<1>7. CASE left = <<old, sidecar[at]>>
  BY <1>1, <1>7 DEF old
<1>8. CASE left = <<[n \in {} |-> Partial], sidecar[at]>> /\ at \in Directory /\ old = NoFile
  BY <1>1, <1>3, <1>8 DEF old
<1>9. CASE copied /\ left \in Remains(at, old, {}) \X {sidecar[at], Cleared(at)}
  BY <1>1, <1>4, <1>5, <1>9
<1>10. CASE copied /\ left = <<NoFile, Cleared(at)>>
  BY <1>4, <1>10
<1>11. CASE copied
            /\ left \in Remains(at, offer[at].copy, {Partial}) \X {Cleared(at), Arrived(at)}
  BY <1>4, <1>5, <1>11
<1>12. CASE pc = "describe" /\ left \in {old} \X {empty, NoFile}
  BY <1>1, <1>2, <1>12
<1>13. QED
  BY <1>6, <1>7, <1>8, <1>9, <1>10, <1>11, <1>12

\* An interruption touches the files of the product at hand alone, and those were
\* touched before, or there were none.
LEMMA InterruptKeeps ==
  ASSUME IInv, Interrupt
  PROVE  IInv'
<1>1. /\ pc # "idle" /\ pc' = "idle" /\ mode' = "none" /\ at' = 1 /\ offer' = NoOffer
      /\ faults' = faults + 1
      /\ manifest' \in {manifest, Lost}
      /\ UNCHANGED <<intact, upstream, changes>>
      /\ TypeOK /\ Control /\ \A p \in Product : RecordHolds(p)
      /\ FilesTyped /\ sidecar \in [Product -> Sidecar \cup {NoFile}]
  BY DEF IInv, TypeOK, FilesTyped, Control, Interrupt, End
<1>2. /\ FilesTyped' /\ sidecar' \in [Product -> Sidecar \cup {NoFile}]
      /\ \A p \in Product :
           \/ payload'[p] = payload[p] /\ sidecar'[p] = sidecar[p]
           \/ p = at /\ (pc \in {"fetch", "describe"} \/ payload[p] = NoFile)
  <2>1. CASE at \in Product
    <3>1. PICK left \in Leftover(at) :
            /\ payload' = [payload EXCEPT ![at] = left[1]]
            /\ sidecar' = [sidecar EXCEPT ![at] = left[2]]
      BY <2>1 DEF Interrupt
    <3>2. /\ left[1] \in Payload(at) \cup {NoFile} /\ left[2] \in Sidecar \cup {NoFile}
          /\ pc \notin {"fetch", "describe"} =>
               payload[at] \in {left[1], NoFile} /\ left[2] = sidecar[at]
      BY <1>1, <2>1, LeftoverFacts
    <3>3. FilesTyped' /\ \A p \in Product \ {at} : payload'[p] = payload[p]
      BY <1>1, <2>1, <3>1, <3>2, WrittenTyped
    <3>4. payload'[at] = left[1] /\ sidecar'[at] = left[2]
      BY <1>1, <2>1, <3>1 DEF FilesTyped
    <3>5. /\ sidecar' \in [Product -> Sidecar \cup {NoFile}]
          /\ \A p \in Product \ {at} : sidecar'[p] = sidecar[p]
      BY <1>1, <2>1, <3>1, <3>2
    <3>6. QED
      BY <3>2, <3>3, <3>4, <3>5
  <2>2. CASE at \notin Product
    BY <1>1, <2>2 DEF Interrupt, FilesTyped
  <2>3. QED
    BY <2>1, <2>2
<1>3. TypeOK'
  BY <1>1, <1>2, NoOfferIsOffer, ProductAssumption DEF TypeOK, FilesTyped
<1>4. Control'
  BY <1>1, EndedControl
<1>5. ASSUME manifest' # Lost, NEW p \in Product PROVE RecordHolds(p)'
  <2>1. manifest' = manifest /\ RecordHolds(p)
    BY <1>1, <1>5
  <2>2. pc \in {"fetch", "describe"} => ~intact[at]
    BY <1>1 DEF Control
  <2>3. CASE payload'[p] = payload[p] /\ sidecar'[p] = sidecar[p]
    BY <1>1, <2>1, <2>3 DEF RecordHolds
  <2>4. CASE p = at /\ (pc \in {"fetch", "describe"} \/ payload[p] = NoFile)
    BY <1>1, <2>1, <2>2, <2>4, PayloadFacts DEF RecordHolds
  <2>5. QED
    BY <1>2, <2>3, <2>4
<1>6. faults' # 0
  BY <1>1 DEF TypeOK
<1>7. QED
  BY <1>3, <1>4, <1>5, <1>6 DEF IInv

LEMMA PlaceByHandKeeps ==
  ASSUME IInv, NEW p \in Product, NEW c \in Candidate[p], PlaceByHand(p, c)
  PROVE  IInv'
<1>1. /\ pc = "idle" /\ changes' = changes + 1
      /\ payload' = [payload EXCEPT ![p] = c.content]
      /\ sidecar' = [sidecar EXCEPT ![p] = c.sidecar]
      /\ intact' = [intact EXCEPT ![p] = FALSE]
      /\ UNCHANGED <<manifest, upstream, mode, pc, at, offer, faults>>
      /\ TypeOK /\ Control /\ mode = "none"
  BY DEF IInv, Control, PlaceByHand
<1>2. c.content \in Whole(p) /\ c.sidecar \in Sidecar \cup {NoFile}
  <2>1. Candidate[p] \subseteq
          [content : Whole(p), copy : Whole(p), sidecar : Sidecar \cup {NoFile}]
    BY InputAssumption
  <2>2. QED
    BY <2>1
<1>3. FilesTyped' /\ \A q \in Product \ {p} : payload'[q] = payload[q]
  BY <1>1, <1>2, WrittenTyped DEF TypeOK, FilesTyped, Whole
<1>4. /\ sidecar' \in [Product -> Sidecar \cup {NoFile}]
      /\ intact' \in [Product -> BOOLEAN]
      /\ payload'[p] = c.content /\ ~intact'[p]
      /\ \A q \in Product \ {p} : sidecar'[q] = sidecar[q] /\ intact'[q] = intact[q]
  BY <1>1, <1>2 DEF TypeOK
<1>5. TypeOK'
  BY <1>1, <1>3, <1>4 DEF TypeOK, FilesTyped
<1>6. Control'
  BY <1>1, EndedControl
<1>7. \A q \in Product : RecordHolds(q) => RecordHolds(q)'
  BY <1>1, <1>3, <1>4 DEF RecordHolds
<1>8. \A q \in Product : NoneShort(q) => NoneShort(q)'
  BY <1>1, <1>2, <1>3, <1>4 DEF NoneShort, Whole
<1>9. QED
  BY <1>1, <1>5, <1>6, <1>7, <1>8 DEF IInv

LEMMA PublishKeeps ==
  ASSUME IInv, NEW p \in Product \ NoUrl, Publish(p)
  PROVE  IInv'
<1>1. /\ changes' = changes + 1 /\ upstream' \in [Product \ NoUrl -> Version]
      /\ UNCHANGED <<manifest, cache, mode, pc, at, offer, faults>>
  BY DEF IInv, TypeOK, Publish
<1>2. TypeOK'
  BY <1>1 DEF IInv, TypeOK, cache
<1>3. Control'
  BY <1>1 DEF IInv, Control, cache, Fetched
<1>4. \A q \in Product : (RecordHolds(q) => RecordHolds(q)') /\ (NoneShort(q) => NoneShort(q)')
  BY <1>1 DEF RecordHolds, NoneShort, cache
<1>5. QED
  BY <1>1, <1>2, <1>3, <1>4 DEF IInv

LEMMA RestoreTemplateKeeps ==
  ASSUME IInv, RestoreTemplate
  PROVE  IInv'
<1>1. /\ manifest' \in NewManifest /\ pc = "idle" /\ mode = "none"
      /\ UNCHANGED <<cache, world, mode, pc, at, offer>>
  BY DEF IInv, Control, RestoreTemplate
<1>2. TypeOK'
  BY <1>1, NewManifestFacts DEF IInv, TypeOK, cache, world
<1>3. Control'
  BY <1>1, EndedControl
<1>4. \A p \in Product : RecordHolds(p)'
  BY <1>1, NewManifestFacts DEF RecordHolds
<1>5. \A p \in Product : NoneShort(p) => NoneShort(p)'
  BY <1>1, NewManifestFacts DEF NoneShort, cache
<1>6. faults' = faults
  BY <1>1 DEF world
<1>7. QED
  BY <1>2, <1>3, <1>4, <1>5, <1>6 DEF IInv

LEMMA StutterKeeps ==
  ASSUME IInv, UNCHANGED vars
  PROVE  IInv'
BY DEF IInv, TypeOK, Control, RecordHolds, NoneShort, vars, Fetched

LEMMA Inductive == IInv /\ [Next]_vars => IInv'
<1> SUFFICES ASSUME IInv, [Next]_vars PROVE IInv'
  OBVIOUS
<1>1. CASE StartDownload \/ (\E o \in Offer : StartCopy(o)) \/ StartStage
  BY <1>1, StartKeeps
<1>2. CASE NextProduct
  BY <1>2, NextProductKeeps
<1>3. CASE Fetch
  BY <1>3, FetchKeeps
<1>4. CASE Describe
  BY <1>4, DescribeKeeps
<1>5. CASE WriteManifest
  BY <1>5, WriteManifestKeeps
<1>6. CASE Interrupt
  BY <1>6, InterruptKeeps
<1>7. CASE \E p \in Product : \E c \in Candidate[p] : PlaceByHand(p, c)
  BY <1>7, PlaceByHandKeeps
<1>8. CASE \E p \in Product \ NoUrl : Publish(p)
  BY <1>8, PublishKeeps
<1>9. CASE RestoreTemplate
  BY <1>9, RestoreTemplateKeeps
<1>10. CASE UNCHANGED vars
  BY <1>10, StutterKeeps
<1>11. QED
  BY <1>1, <1>2, <1>3, <1>4, <1>5, <1>6, <1>7, <1>8, <1>9, <1>10 DEF Next, CommandStep

LEMMA Invariance == Spec => []IInv
<1>1. QED
  BY Initially, Inductive, PTL DEF Spec
-------------------------------------------------------------------------------
(* Theorems *)

\* Every record, payload and sidecar stays one of its kind, and a command's place and
\* product agree, after any interruption (stage_public_geodata_cache.py 169-386).
THEOREM TypeCorrect == Spec => []TypeOK
<1>1. IInv => TypeOK
  BY DEF IInv
<1>2. QED
  BY <1>1, Invariance, PTL

\* For any products, templates, candidates and upstream contents: what the manifest
\* calls verified is there, is what was pinned, and passes the verifier where its
\* sidecar states what staging writes; nothing short is pinned before an interruption
\* (stage_public_geodata_cache_product, 740-815).
THEOREM VerifiedIsThere == Spec => []VerifiedHolds
<1>1. IInv => VerifiedHolds
  <2> SUFFICES ASSUME IInv, manifest # Lost, NEW p \in Product
               PROVE  /\ manifest[p].status = "verified" /\ intact[p] =>
                           /\ payload[p] # NoFile /\ sidecar[p] # NoFile
                           /\ manifest[p].pin = Digest(p, payload[p])
                           /\ Verifier(p) \in {"verified", "metadata_mismatch"}
                           /\ /\ {sidecar[p].raw, sidecar[p].processed} =
                                   {Digest(p, payload[p])}
                              /\ manifest[p].prepared # Command
                              => Verifier(p) = "verified"
                      /\ faults = 0 => \A t \in Torn(p) : manifest[p].pin # Digest(p, t)
    BY DEF VerifiedHolds
  <2>1. ASSUME manifest[p].status = "verified", intact[p]
        PROVE  /\ payload[p] # NoFile /\ sidecar[p] # NoFile
               /\ manifest[p].pin = Digest(p, payload[p])
               /\ Verifier(p) \in {"verified", "metadata_mismatch"}
               /\ /\ {sidecar[p].raw, sidecar[p].processed} = {Digest(p, payload[p])}
                  /\ manifest[p].prepared # Command
                  => Verifier(p) = "verified"
    <3>1. /\ payload[p] \in Payload(p) /\ sidecar[p] \in Sidecar
          /\ manifest[p].pin = Digest(p, payload[p])
          /\ manifest[p].raw = Digest(p, payload[p])
          /\ manifest[p].processed = Digest(p, payload[p])
          /\ manifest[p].prepared \in {Command, sidecar[p].prepared}
          /\ sidecar[p].describes
      BY <2>1 DEF IInv, RecordHolds
    <3>2. payload[p] # NoFile /\ sidecar[p] # NoFile
      BY <3>1, PayloadFacts, DataAssumption
    <3>3. Expected(manifest[p]) = Digest(p, payload[p])
      BY <3>1 DEF Expected
    <3>4. Verifier(p) = IF Agrees(manifest[p], sidecar[p]) THEN "verified" ELSE "metadata_mismatch"
      BY <3>2, <3>3 DEF Verifier, StatusOf
    <3>5. /\ {sidecar[p].raw, sidecar[p].processed} = {Digest(p, payload[p])}
          /\ manifest[p].prepared # Command
          => Agrees(manifest[p], sidecar[p])
      BY <3>1 DEF Agrees
    <3>6. QED
      BY <3>1, <3>2, <3>4, <3>5
  <2>2. faults = 0 => \A t \in Torn(p) : manifest[p].pin # Digest(p, t)
    BY DEF IInv, NoneShort, TornDigest
  <2>3. QED
    BY <2>1, <2>2
<1>2. QED
  BY <1>1, Invariance, PTL

\* Whatever is published or offered later, no command and no interruption that leaves a
\* manifest replaces a checksum (checksum_sha256, 757, 804 and 875-885).
THEOREM PinIsKept == Spec => PinKept
<1>1. IInv /\ [Next]_vars =>
        [\A p \in Product :
           manifest # Lost /\ manifest' # Lost /\ manifest[p].pin # NoDigest =>
             manifest'[p].pin = manifest[p].pin]_vars
  <2> SUFFICES ASSUME IInv, [Next]_vars, NEW p \in Product,
                      manifest # Lost, manifest' # Lost, manifest[p].pin # NoDigest
               PROVE  manifest'[p].pin = manifest[p].pin
    OBVIOUS
  <2>1. CASE WriteManifest
    <3>1. manifest'[p] = Final(p) /\ pc = "write"
      BY <2>1 DEF WriteManifest
    <3>2. QED
      BY <3>1, FinalFacts DEF IInv
  <2>2. CASE RestoreTemplate
    BY <2>2 DEF RestoreTemplate
  <2>3. CASE ~WriteManifest /\ ~RestoreTemplate
    <3>1. manifest' \in {manifest, Lost}
      BY <2>3 DEF Next, CommandStep, StartDownload, StartCopy, StartStage, NextProduct, Fetch,
        Describe, Interrupt, PlaceByHand, Publish, vars
    <3>2. QED
      BY <3>1
  <2>4. QED
    BY <2>1, <2>2, <2>3
<1>2. QED
  BY <1>1, Invariance, PTL DEF Spec, PinKept
===============================================================================
