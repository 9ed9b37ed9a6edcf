------------------------------ MODULE GeodataCache ------------------------------
(***************************************************************************)
(* The cache of public geodata that scripts/stage_public_geodata_cache.py  *)
(* fills and scripts/verify_public_geodata_cache.py checks: per product a  *)
(* payload (a file, or a directory of files), a metadata sidecar, and a    *)
(* record in one manifest.  A command downloads the products, copies local *)
(* candidates over them, or stages what is there; it rewrites payloads and *)
(* sidecars in place, one product after the other, and the manifest last.  *)
(*                                                                         *)
(* What a product's descriptive fields say is one Boolean, a digest is the *)
(* content it is taken of.  The commands that write nothing have no action.*)
(***************************************************************************)
EXTENDS Naturals

CONSTANTS
  ProductCount,  \* products of the manifest, in its order
  Directory,     \* products staged as a directory
  Inside,        \* those of them whose sidecar lies in the directory
  Optional,      \* products that are not required
  NoUrl,         \* products without a source URL
  Name, UrlName, \* of files in a directory, and the one a download writes
  Version,       \* whole files
  Partial,       \* a file that was not written to its end
  Candidate,     \* what lies in the local roots, per product
  Template,      \* what the manifest template may say of a product
  Stamp,         \* times of a download
  Given,         \* a preparation that a person wrote down
  Command,       \* the preparation staging writes down if there is none
  NoFile, NoCandidate, NoDigest, NoLabel, Lost,
  MaxChanges, MaxFaults  \* bounds of the environment

Product == 1 .. ProductCount
Content == Version \cup {Partial}

\* What may lie at the staged path of a product, its sidecar left aside: files by their
\* names.  A payload that is one file goes by the name of its download.
Tree == UNION {[N -> Content] : N \in SUBSET Name}
Payload(p) == IF p \in Directory THEN Tree ELSE [{UrlName} -> Content]
Whole(p) == {t \in Payload(p) : \A n \in DOMAIN t : t[n] # Partial}
Torn(p) == Payload(p) \ Whole(p)

\* sha256_path of a file, and of what is staged: that of a directory covers every name
\* and file in it.
RawDigest(c) == <<"file", c>>
Digest(p, t) == IF p \in Directory THEN <<"tree", t>> ELSE RawDigest(t[UrlName])

SomeDigest == ({"file"} \X Content) \cup ({"tree"} \X Tree) \cup {NoDigest}
Label == Stamp \cup {Given, Command, NoLabel}
Status ==
  {"none", "verified", "missing", "optional_missing", "checksum_mismatch",
   "metadata_mismatch"}
Sidecar == [raw : SomeDigest, processed : SomeDigest, prepared : Label, describes : BOOLEAN]
Record ==
  [pin : SomeDigest, raw : SomeDigest, processed : SomeDigest, prepared : Label,
   status : Status]

ASSUME ProductAssumption ==
  /\ ProductCount \in Nat \ {0}
  /\ Directory \cup Optional \cup NoUrl \subseteq Product
  /\ Inside \subseteq Directory
  /\ {MaxChanges, MaxFaults} \subseteq Nat

ASSUME DataAssumption ==
  /\ UrlName \in Name
  /\ Partial \notin Version
  /\ NoFile \notin Tree \cup Sidecar
  /\ NoDigest \notin ({"file"} \X Content) \cup ({"tree"} \X Tree)
  /\ {Given, Command, NoLabel} \cap Stamp = {}
  /\ Given # Command /\ Given # NoLabel /\ Command # NoLabel
  /\ Lost \notin [Product -> Record]

\* Three times are enough for a download to be later than its sidecar and its record.
ASSUME StampAssumption == \A x, y \in Label : \E s \in Stamp : s # x /\ s # y

\* Local candidates are whole, and what templates expect is; a template is new.  A copy
\* of a candidate directory may hold more than its content: the candidate's own sidecar,
\* if that has another place in it than the product's has.
ASSUME InputAssumption ==
  \A p \in Product :
    /\ NoCandidate \notin Candidate[p]
    /\ Candidate[p] \subseteq
         [content : Whole(p), copy : Whole(p), sidecar : Sidecar \cup {NoFile}]
    /\ \A c \in Candidate[p] : c.sidecar = NoFile => c.copy = c.content
    /\ \A r \in Template[p] :
         /\ r \in Record /\ r.status = "none"
         /\ {r.pin, r.processed} \subseteq {Digest(p, t) : t \in Whole(p)} \cup {NoDigest}

VARIABLES
  manifest,  \* a record per product, or Lost: an empty file, read as no products
  payload,   \* at the staged path of each product
  sidecar,   \* at its metadata path
  upstream,  \* what its URL delivers
  mode,      \* the running command: "download", "copy", "stage" or "none"
  pc,        \* what it does next
  at,        \* with which product
  offer,     \* the candidates a copy has matched
  faults, changes,
  \* history
  intact     \* products whose files were not touched since the manifest was written

vars ==
  <<manifest, payload, sidecar, upstream, mode, pc, at, offer, faults, changes, intact>>
cache == <<payload, sidecar, intact>>
world == <<upstream, faults, changes>>
NoOffer == [p \in Product |-> NoCandidate]

\* What may be matched in the roots, and what a new manifest may say.
Offer ==
  {o \in [Product -> (UNION {Candidate[p] : p \in Product}) \cup {NoCandidate}] :
     \A p \in Product : o[p] \in Candidate[p] \cup {NoCandidate}}
NewManifest ==
  {m \in [Product -> UNION {Template[p] : p \in Product}] :
     \A p \in Product : m[p] \in Template[p]}

Init ==
  /\ manifest \in NewManifest
  /\ payload = [p \in Product |-> NoFile]
  /\ sidecar = [p \in Product |-> NoFile]
  /\ upstream \in [Product \ NoUrl -> Version]
  /\ mode = "none" /\ pc = "idle" /\ at = 1
  /\ offer = NoOffer
  /\ faults = 0 /\ changes = 0
  /\ intact = [p \in Product |-> FALSE]
-------------------------------------------------------------------------------
(* Checking a product *)

\* compare_metadata: what the record says and the sidecar does not.
Agrees(r, s) ==
  /\ s.describes
  /\ r.raw \in {NoDigest, s.raw}
  /\ r.processed \in {NoDigest, s.processed}
  /\ r.prepared \in {NoLabel, s.prepared}

\* Mutant: what was processed last is expected before what is pinned.
ExpectedProcessed(r) == IF r.processed # NoDigest THEN r.processed ELSE r.pin

Expected(r) == IF r.pin # NoDigest THEN r.pin ELSE r.processed

\* The status of product p by record r, with payload t and sidecar s; unpinned
\* says whether a record without any checksum passes.
StatusOf(p, r, t, s, unpinned) ==
  IF t = NoFile \/ s = NoFile THEN IF p \in Optional THEN "optional_missing" ELSE "missing"
  ELSE IF Expected(r) # Digest(p, t) /\ ~(unpinned /\ Expected(r) = NoDigest)
       THEN "checksum_mismatch"
  ELSE IF Agrees(r, s) THEN "verified" ELSE "metadata_mismatch"

\* stage_public_geodata_cache_product: a digest found is pinned unless one is, whatever
\* the status; a verified record takes the digest and a preparation.
Staged(p, r) ==
  LET status == StatusOf(p, r, payload[p], sidecar[p], TRUE)
      found == Digest(p, payload[p])
  IN IF status \in {"missing", "optional_missing"} THEN [r EXCEPT !.status = status]
     ELSE [pin |-> IF Expected(r) = NoDigest THEN found ELSE Expected(r),
           raw |-> IF status = "verified" THEN found ELSE r.raw,
           processed |-> IF status = "verified" THEN found ELSE r.processed,
           prepared |-> IF status = "verified" /\ r.prepared = NoLabel THEN Command
                        ELSE r.prepared,
           status |-> status]

\* verify_public_geodata_cache_product, which writes nothing.
Verifier(p) == StatusOf(p, manifest[p], payload[p], sidecar[p], FALSE)
-------------------------------------------------------------------------------
(* The commands *)

\* --mode download --download, with a URL for every required product.
StartDownload ==
  /\ pc = "idle"
  /\ manifest # Lost
  /\ NoUrl \subseteq Optional
  /\ mode' = "download" /\ pc' = "next" /\ at' = 1
  /\ UNCHANGED <<manifest, cache, world, offer>>

\* propose_public_geodata_cache_product: the status of a candidate where it lies, with
\* the sidecar at the target if it has none of its own.
CandidateStatus(p, o) ==
  StatusOf(p, manifest[p], o.content, IF o.sidecar # NoFile THEN o.sidecar ELSE sidecar[p], TRUE)

\* The proposal is applied only if no product blocks it; an optional product without
\* a candidate does not, whatever lies in its place.
Proposed(o) ==
  \A p \in Product :
    IF o[p] = NoCandidate THEN p \in Optional
    ELSE CandidateStatus(p, o[p]) \in {"verified", "optional_missing"}

\* --mode local-copy --apply with local roots; o is what was matched in them.
StartCopy(o) ==
  /\ pc = "idle"
  /\ manifest # Lost
  /\ Proposed(o)
  /\ mode' = "copy" /\ pc' = "next" /\ at' = 1
  /\ offer' = o
  /\ UNCHANGED <<manifest, cache, world>>

\* --mode local-copy --apply without roots.
StartStage ==
  /\ pc = "idle"
  /\ manifest # Lost
  /\ mode' = "stage" /\ pc' = "write" /\ at' = 1
  /\ UNCHANGED <<manifest, cache, world, offer>>

Fetched(p) ==
  IF mode = "download" THEN p \notin NoUrl ELSE offer[p] # NoCandidate

\* A file is written in the place of the payload; the others in a directory stay.
Write(t, c) ==
  [n \in {UrlName} \cup (IF t = NoFile THEN {} ELSE DOMAIN t) |->
     IF n = UrlName THEN c ELSE t[n]]

\* A download opens the payload of the next product for writing, a copy is about to
\* remove it, or the product is passed by.
NextProduct ==
  /\ pc = "next"
  /\ IF at \notin Product THEN pc' = "write" /\ UNCHANGED <<at, cache>>
     ELSE IF ~Fetched(at) THEN at' = at + 1 /\ UNCHANGED <<pc, cache>>
     ELSE /\ pc' = "fetch"
          /\ payload' = IF mode = "download" THEN [payload EXCEPT ![at] = Write(@, Partial)]
                        ELSE payload
          /\ intact' = [intact EXCEPT ![at] = FALSE]
          /\ UNCHANGED <<at, sidecar>>
  /\ UNCHANGED <<manifest, world, mode, offer>>

\* What is left at the metadata path when a copy has removed the old directory, and
\* when it has copied the new one.
Cleared(p) == IF p \in Inside THEN NoFile ELSE sidecar[p]
Arrived(p) ==
  IF p \in Inside /\ offer[p].copy = offer[p].content THEN offer[p].sidecar ELSE Cleared(p)

\* A download is written to its end; a copy removes what is there and takes its place.
Fetch ==
  /\ pc = "fetch"
  /\ pc' = "describe"
  /\ \/ /\ mode = "download"
        /\ payload' = [payload EXCEPT ![at] = Write(@, upstream[at])]
        /\ sidecar' = sidecar
     \/ /\ mode = "copy"
        /\ payload' = [payload EXCEPT ![at] = offer[at].copy]
        /\ sidecar' = [sidecar EXCEPT ![at] = Arrived(at)]
  /\ UNCHANGED <<manifest, intact, world, mode, at, offer>>

\* The time of a download is later than those in the product's sidecar and record.
Now(p) ==
  CHOOSE s \in Stamp :
    s # manifest[p].prepared /\ (sidecar[p] = NoFile \/ s # sidecar[p].prepared)

\* build_download_metadata, or the candidate's own sidecar.
Describe ==
  /\ pc = "describe"
  /\ pc' = "next" /\ at' = at + 1
  /\ sidecar' =
       [sidecar EXCEPT ![at] =
          IF mode = "download"
          THEN [raw |-> RawDigest(payload[at][UrlName]), processed |-> Digest(at, payload[at]),
                prepared |-> Now(at), describes |-> TRUE]
          ELSE IF offer[at].sidecar # NoFile THEN offer[at].sidecar ELSE @]
  /\ UNCHANGED <<manifest, payload, intact, world, mode, offer>>

\* Mutant: a download checks the record as it was.
DownloadedStale(p) ==
  LET r == manifest[p]
  IN IF p \in NoUrl THEN [r EXCEPT !.status = "optional_missing"]
     ELSE Staged(p, [r EXCEPT !.pin = IF @ # NoDigest THEN @ ELSE sidecar[p].processed])

\* download_public_geodata_cache_product: the record that is checked after a download.
Downloaded(p) ==
  LET r == manifest[p]
      s == sidecar[p]
  IN IF p \in NoUrl THEN [r EXCEPT !.status = "optional_missing"]
     ELSE Staged(p, [pin |-> IF r.pin # NoDigest THEN r.pin ELSE s.processed, raw |-> s.raw,
                     processed |-> s.processed, prepared |-> s.prepared,
                     status |-> r.status])

\* Mutant: a copy leaves the records of the products alone that it does not copy.
FinalOfCopied(p) ==
  LET r == manifest[p]
  IN IF mode = "download" THEN Downloaded(p)
     ELSE IF mode = "copy" /\ offer[p] = NoCandidate THEN r
     ELSE Staged(p, r)

\* The record a command ends with: a copied product is pinned as if it had a checksum.
Final(p) ==
  LET r == manifest[p]
  IN IF mode = "download" THEN Downloaded(p)
     ELSE IF mode = "copy" /\ offer[p] # NoCandidate
          THEN Staged(p, [r EXCEPT !.pin = Expected(r)])
     ELSE Staged(p, r)

End == mode' = "none" /\ pc' = "idle" /\ at' = 1 /\ offer' = NoOffer

\* The manifest is rewritten with the record of every product.
WriteManifest ==
  /\ pc = "write"
  /\ manifest' = [p \in Product |-> Final(p)]
  /\ intact' = [p \in Product |-> TRUE]
  /\ End
  /\ UNCHANGED <<payload, sidecar, world>>

\* What is left of payload t if some of its files are missing and others are short.
Remains(p, t, short) ==
  {u \in Payload(p) : DOMAIN u \subseteq DOMAIN t /\ \A n \in DOMAIN u : u[n] \in {t[n]} \cup short}

\* The payload and the sidecar of product p when a command ends where it is.  A download
\* may have made its directory only; a copy may have removed a part of the old payload, or
\* written a part of the new one; a sidecar that was being written is empty.
Leftover(p) ==
  LET empty == [raw |-> NoDigest, processed |-> NoDigest, prepared |-> NoLabel,
                describes |-> FALSE]
      old == payload[p]
      made == IF pc = "next" /\ mode = "download" /\ p \in Directory \ NoUrl /\ old = NoFile
              THEN {<<[n \in {} |-> Partial], sidecar[p]>>} ELSE {}
      removing == IF old = NoFile THEN {} ELSE Remains(p, old, {}) \X {sidecar[p], Cleared(p)}
      copying == Remains(p, offer[p].copy, {Partial}) \X {Cleared(p), Arrived(p)}
      copied == IF pc = "fetch" /\ mode = "copy"
                THEN removing \cup {<<NoFile, Cleared(p)>>} \cup copying ELSE {}
      writes == pc = "describe" /\ (mode = "copy" => offer[p].sidecar # NoFile)
      described == {old} \X ((IF writes THEN {empty} ELSE {}) \cup
                             (IF writes /\ mode = "copy" THEN {NoFile} ELSE {}))
  IN {<<old, sidecar[p]>>} \cup made \cup copied \cup described

\* The connection breaks, a copy fails or the command is killed: it ends where it is.
\* A file that was being written is left short, a sidecar or a manifest empty.
Interrupt ==
  /\ pc # "idle"
  /\ faults < MaxFaults
  /\ faults' = faults + 1
  /\ manifest' \in IF pc = "write" THEN {manifest, Lost} ELSE {manifest}
  /\ IF at \in Product
     THEN \E left \in Leftover(at) :
            /\ payload' = [payload EXCEPT ![at] = left[1]]
            /\ sidecar' = [sidecar EXCEPT ![at] = left[2]]
     ELSE UNCHANGED <<payload, sidecar>>
  /\ End
  /\ UNCHANGED <<intact, upstream, changes>>
-------------------------------------------------------------------------------
(* The environment *)

\* Somebody puts a payload and a sidecar in place.
PlaceByHand(p, c) ==
  /\ pc = "idle"
  /\ changes < MaxChanges
  /\ changes' = changes + 1
  /\ payload' = [payload EXCEPT ![p] = c.content]
  /\ sidecar' = [sidecar EXCEPT ![p] = c.sidecar]
  /\ intact' = [intact EXCEPT ![p] = FALSE]
  /\ UNCHANGED <<manifest, upstream, mode, pc, at, offer, faults>>

\* A new version is published under the URL of a product.
Publish(p) ==
  /\ changes < MaxChanges
  /\ changes' = changes + 1
  /\ \E v \in Version : upstream' = [upstream EXCEPT ![p] = v]
  /\ UNCHANGED <<manifest, cache, mode, pc, at, offer, faults>>

\* A lost manifest is made anew from the template.
RestoreTemplate ==
  /\ pc = "idle"
  /\ manifest = Lost
  /\ manifest' \in NewManifest
  /\ UNCHANGED <<cache, world, mode, pc, at, offer>>

CommandStep == NextProduct \/ Fetch \/ Describe \/ WriteManifest

Next ==
  \/ StartDownload
  \/ \E o \in Offer : StartCopy(o)
  \/ StartStage
  \/ CommandStep
  \/ Interrupt
  \/ \E p \in Product : \E c \in Candidate[p] : PlaceByHand(p, c)
  \/ \E p \in Product \ NoUrl : Publish(p)
  \/ RestoreTemplate

Spec == Init /\ [][Next]_vars

\* A started command goes on; nobody promises to start one.
FairSpec == Spec /\ WF_vars(CommandStep)
-------------------------------------------------------------------------------
(* Properties *)

\* Type invariant.
TypeOK ==
  /\ manifest \in [Product -> Record] \cup {Lost}
  /\ payload \in [Product -> Tree \cup {NoFile}]
  /\ \A p \in Product : payload[p] \in Payload(p) \cup {NoFile}
  /\ sidecar \in [Product -> Sidecar \cup {NoFile}]
  /\ upstream \in [Product \ NoUrl -> Version]
  /\ mode \in {"none", "download", "copy", "stage"}
  /\ pc \in {"idle", "next", "fetch", "describe", "write"}
  /\ at \in 1 .. ProductCount + 1
  /\ offer \in Offer
  /\ faults \in Nat /\ changes \in Nat
  /\ intact \in [Product -> BOOLEAN]

\* What the manifest calls verified is there and is what was pinned, as long as nobody
\* touches it, whichever command wrote the record and whatever was interrupted before;
\* if its sidecar states the digest and the record a preparation of its own, then the
\* verifier agrees.  Until a command is interrupted, only whole payloads are pinned.
VerifiedHolds ==
  manifest # Lost =>
    \A p \in Product :
      /\ manifest[p].status = "verified" /\ intact[p] =>
           /\ payload[p] # NoFile /\ sidecar[p] # NoFile
           /\ manifest[p].pin = Digest(p, payload[p])
           /\ Verifier(p) \in {"verified", "metadata_mismatch"}
           /\ /\ {sidecar[p].raw, sidecar[p].processed} = {Digest(p, payload[p])}
              /\ manifest[p].prepared # Command
              => Verifier(p) = "verified"
      /\ faults = 0 => \A t \in Torn(p) : manifest[p].pin # Digest(p, t)

\* A checksum is trusted on first use: once pinned it stays, through every command and
\* interruption that leaves a manifest, so that no download changes what is accepted.
PinKept ==
  [][\A p \in Product :
       manifest # Lost /\ manifest' # Lost /\ manifest[p].pin # NoDigest =>
         manifest'[p].pin = manifest[p].pin]_vars

Repaired(p) ==
  \/ manifest[p].status = "verified"
  \/ manifest[p].pin # Digest(p, Write(NoFile, upstream[p]))
  \/ payload[p] # NoFile /\ DOMAIN payload[p] # {UrlName}

\* However interrupted commands, wrong sidecars or files placed by hand left the cache:
\* if downloads are started again and again, every product they fetch is again and
\* again verified, unless it is pinned to what its URL does not deliver, or other files
\* than the download's lie in its directory, which no download removes.
DownloadsRepair ==
  []<>(mode = "download" /\ pc = "next") =>
    []<>(manifest = Lost \/ \A p \in Product \ NoUrl : Repaired(p))
===============================================================================
