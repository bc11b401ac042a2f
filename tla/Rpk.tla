---------------------------------- MODULE Rpk ----------------------------------
(***************************************************************************)
(* RPK archives, which firmwares come in: a tree of blobs.  A file is a    *)
(* sequence of tokens: the head of a blob, its body, which begins with its *)
(* children, and the end of the blob.  A body may be compressed, and is    *)
(* one token then.                                                         *)
(*                                                                         *)
(* A checksum is the body that it was computed from.                       *)
(***************************************************************************)
EXTENDS Naturals, Sequences, SequencesExt

Eob == [kind |-> "eob"]
Junk == [kind |-> "junk"]
Lzf(body) == [kind |-> "lzf", body |-> body]
NoAsset == ""
NoMetadata == [type |-> "unknown", magic |-> "", variant |-> ""]

Error == [ok |-> FALSE]

------------------------------------------------------------------------------
(* newBlobFromReader *)

GoodHead(r) ==
  /\ r # <<>> /\ r[1].kind = "head"
  /\ r[1].magic \in {"PF", "PM", "PA", "PX"} /\ r[1].compress \in {"C", "U"}

\* Mutant: the checksum is not compared.
IntactAlways(h, raw) == TRUE

Intact(h, raw) == raw = h.crc

\* What of a body can be read: all of it, or what a good decompression yields.
Expands(h, raw) ==
  h.compress = "C" => Len(raw) = 1 /\ raw[1].kind = "lzf" /\ Len(raw[1].body) = h.ulength
Expanded(h, raw) == IF h.compress = "C" THEN raw[1].body ELSE raw

RECURSIVE Blob(_), Blobs(_, _)

\* A blob, and what comes after it.
Blob(r) ==
  IF ~GoodHead(r) \/ Len(r) < r[1].length + 2 THEN Error
  ELSE LET h     == r[1]
           raw   == SubSeq(r, 2, h.length + 1)
           after == SubSeq(r, h.length + 2, Len(r))
       IN  IF ~Intact(h, raw) \/ ~Expands(h, raw) \/ after[1] # Eob THEN Error
           ELSE LET inner == Blobs(h.children, Expanded(h, raw))
                IN  IF ~inner.ok THEN Error
                    ELSE [ok |-> TRUE, rest |-> Tail(after),
                          blob |-> [magic |-> h.magic, body |-> inner.rest, children |-> inner.blobs]]

\* n blobs, and what comes after them.
Blobs(n, r) ==
  IF n = 0 THEN [ok |-> TRUE, blobs |-> <<>>, rest |-> r]
  ELSE LET first == Blob(r)
       IN  IF ~first.ok THEN Error
           ELSE LET others == Blobs(n - 1, first.rest)
                IN  IF ~others.ok THEN Error
                    ELSE [others EXCEPT !.blobs = <<first.blob>> \o @]

------------------------------------------------------------------------------
(* NewRPKFromReader *)

Of(root, magic) == SelectSeq(root.children, LAMBDA b : b.magic = magic)

\* At most one blob of a kind, without children.
Single(blobs) == Len(blobs) <= 1 /\ \A i \in DOMAIN blobs : blobs[i].children = <<>>
Unpacks(blobs) ==
  \A i \in DOMAIN blobs : blobs[i].body # <<>> /\ blobs[i].body[1].kind = "metadata"

\* Metadata is zero and the asset empty when there is no blob for it.
NewRPK(file) ==
  LET parsed == Blob(file)
  IN  IF ~parsed.ok THEN Error
      ELSE LET metadata == Of(parsed.blob, "PM")
               assets   == Of(parsed.blob, "PA")
               m == IF metadata = <<>> THEN NoMetadata ELSE metadata[1].body[1].is
           IN  IF \/ parsed.blob.magic # "PF"
                  \/ ~Single(metadata) \/ ~Single(assets) \/ ~Unpacks(metadata)
                 THEN Error
               ELSE [ok |-> TRUE,
                     rpk |-> [type |-> m.type, magic |-> m.magic, variant |-> m.variant,
                              asset |-> IF assets = <<>> \/ assets[1].body = <<>> THEN NoAsset
                                        ELSE assets[1].body[1].image]]

------------------------------------------------------------------------------
(* Archives as they are published, and what may become of a file *)

Write(magic, compress, children, body) ==
  LET raw == IF compress = "C" THEN <<Lzf(body)>> ELSE body
  IN  <<[kind |-> "head", magic |-> magic, compress |-> compress, children |-> children,
         length |-> Len(raw), ulength |-> Len(body), crc |-> raw]>> \o raw \o <<Eob>>

Published(a, outer, inner) ==
  Write("PF", outer, 2,
        Write("PM", "U", 0, <<[kind |-> "metadata",
                               is |-> [type |-> a.type, magic |-> a.magic, variant |-> a.variant]]>>)
        \o Write("PA", inner, 0, IF a.asset = NoAsset THEN <<>>
                                 ELSE <<[kind |-> "image", image |-> a.asset]>>))

\* A head with one of its fields changed.
Heads(h) ==
  {[h EXCEPT !.magic = m] : m \in {"PF", "PM", "PA", "PX", "XX"}}
  \cup {[h EXCEPT !.compress = c] : c \in {"C", "U", "X"}}
  \cup {[h EXCEPT !.children = n] : n \in 0 .. 3}
  \cup {[h EXCEPT !.length = n] : n \in 0 .. h.length + 1}
  \cup {[h EXCEPT !.ulength = n] : n \in 0 .. h.ulength + 1}
  \cup {[h EXCEPT !.crc = <<Junk>>]}
Tokens(file) ==
  {Junk, Eob, [kind |-> "image", image |-> "other"]}
  \cup {file[i] : i \in DOMAIN file}

\* The file is cut off, or a token of it is lost, doubled, or another one.
Damaged(file) ==
  {SubSeq(file, 1, n) : n \in 0 .. Len(file) - 1}
  \cup {RemoveAt(file, i) : i \in DOMAIN file}
  \cup {InsertAt(file, i, file[i]) : i \in DOMAIN file}
  \cup {ReplaceAt(file, i, t) : i \in DOMAIN file, t \in Tokens(file)}
  \cup UNION {{ReplaceAt(file, i, h) : h \in Heads(file[i])} :
                i \in {i \in DOMAIN file : file[i].kind = "head"}}

(***************************************************************************)
(* An archive is read as it was published, compressed or not, and one with *)
(* any single damage is refused or read the same: the checksum of the root *)
(* covers the heads of all other blobs (upgrade.go:50), the other checks   *)
(* its own (upgrade.go:36).  Only the root's number of children is checked *)
(* by nothing; with fewer of them an archive is without its asset.         *)
(***************************************************************************)
DamageDetected(a) ==
  \A outer, inner \in {"C", "U"} :
    LET file == Published(a, outer, inner)
    IN  /\ NewRPK(file) = [ok |-> TRUE, rpk |-> a]
        /\ \A d \in Damaged(file) :
             NewRPK(d).ok =>
               \/ NewRPK(d).rpk = a
               \/ d[1].children < 2 /\ NewRPK(d).rpk.asset = NoAsset
==============================================================================
