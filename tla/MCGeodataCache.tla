----------------------------- MODULE MCGeodataCache -----------------------------
(* A small instance of GeodataCache for TLC: a required file, an optional directory, and an
   optional file without a URL. *)
EXTENDS GeodataCache

CONSTANTS v1, v2

\* One file, and a directory with another one beside it.
Own(v) == [n \in {UrlName} |-> v]
Beside(v, w) == [n \in Name |-> IF n = UrlName THEN v ELSE w]

\* Sidecars written by hand: complete, without digests, of another product.
Full(p, t) ==
  [raw |-> Digest(p, t), processed |-> Digest(p, t), prepared |-> Given, describes |-> TRUE]
Bare == [raw |-> NoDigest, processed |-> NoDigest, prepared |-> NoLabel, describes |-> TRUE]
Alien == [Bare EXCEPT !.describes = FALSE]
Of(t, s) == [content |-> t, copy |-> t, sidecar |-> s]

\* Candidates for the file: a right and a wrong one.  For the directory: one without a
\* sidecar, one whose sidecar gets a place of its own, and one with another file.
Candidates ==
  [p \in 1 .. 3 |->
     IF p = 1 THEN {Of(Own(v1), Full(1, Own(v1))), Of(Own(v2), Alien)}
     ELSE IF p = 2
     THEN {Of(Own(v1), NoFile),
           [Of(Own(v1), Full(2, Own(v1))) EXCEPT !.copy = Beside(v1, v2)],
           Of(Beside(v2, v2), Bare)}
     ELSE {Of(Own(v2), NoFile)}]

\* A manifest that expects one version of the required product, or any, and may know
\* what the directory was processed to.
Templates ==
  [p \in 1 .. 3 |->
     [pin : {NoDigest} \cup (IF p = 1 THEN {Digest(1, Own(v1))} ELSE {}),
      raw : {NoDigest},
      processed : {NoDigest} \cup (IF p = 2 THEN {Digest(2, Own(v1))} ELSE {}),
      prepared : {NoLabel}, status : {"none"}]]
===============================================================================
