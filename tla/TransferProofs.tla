----------------------------- MODULE TransferProofs ----------------------------
(***************************************************************************)
(* What upload, download and the settings that follow an upload promise,   *)
(* for any files, sizes and offsets, any sector, block and chunk, and any  *)
(* number of commands, that they implement Copying, and that no command    *)
(* is at work for ever.                                                    *)
(***************************************************************************)
EXTENDS Transfer, SequenceTheorems, TLAPS, Measures

\* The sectors that what an upload is to write takes.
Limit == PadUp(Asked)
Settling == {"boot", "cic", "lookup", "header", "save"}

\* Each command is at one of its own places.
Where ==
  /\ pc # "idle" => result = "none"
  /\ pc = "idle" => buf = <<>>
  /\ pc \in {"open", "head", "fill", "lookup", "header"} => job.cmd = "upload"
  /\ pc = "extended" => job.cmd \in {"upload", "extended"}
  /\ pc \in {"boot", "cic"} => job.cmd \in {"upload", "cic"}
  /\ pc = "boot" \/ (pc = "cic" /\ job.cmd = "upload") => "cic" \in job.auto
  /\ pc \in {"lookup", "header"} => "save" \in job.auto
  /\ pc = "save" => job.cmd = "savetype" \/ (job.cmd = "upload" /\ "save" \in job.auto)
  /\ pc = "dump" => job.cmd = "download"
  /\ job.cmd = "download" => pc \in {"idle", "dump"}
  /\ "save" \in job.auto => job.cmd = "upload"
  /\ "cic" \in job.auto => job.cmd \in {"upload", "cic"}
  /\ job.cmd # "upload" => memory = before /\ job.file = Nothing

\* What the goroutine has read is what it hashed, and the pipe is empty when it is not writing.
Feeding ==
  /\ job.cmd # "upload" \/ pc \in {"idle", "extended", "open"} => producer = "off"
  /\ producer = "off" => pos = 0 /\ end = "more"
  /\ producer # "write" => block = <<>>
  /\ producer = "read" => end = "more"
  /\ producer = "closed" => end # "more"
  /\ end = "EOF" => pos = job.file.length /\ block = <<>>
  /\ Len(hashed) = pos /\ pos <= job.file.length
  /\ \A i \in 1 .. pos : hashed[i].file = job.file /\ hashed[i].at = i - 1

\* The memory holds the first n units of what was hashed in their place, and then padding.
Mirrors(n) ==
  \A a \in 0 .. MemorySize - 1 :
    IF a \in job.offset .. job.offset + n - 1
    THEN IF a - job.offset < Asked
         THEN a - job.offset < pos /\ memory[a] = hashed[a - job.offset + 1]
         ELSE memory[a] = Filler
    ELSE memory[a] = before[a]

\* The upload has loaded this many units, with the padding of the last one.
Done == addr - job.offset

\* The units loaded, those of the chunk and those in the pipe follow one another.
Stream ==
  /\ Done % Pad = 0 /\ left = job.size - Done
  /\ Done + Len(buf) + Len(block) = pos
  /\ \A i \in 1 .. Len(buf) : buf[i] = hashed[Done + i]
  /\ \A i \in 1 .. Len(block) : block[i] = hashed[Done + Len(buf) + i]

Uploading ==
  job.cmd = "upload" /\ Fits =>
    /\ pc \in {"extended", "open"} => addr = job.offset /\ left = job.size /\ buf = <<>>
    /\ pc \in {"extended", "open", "head", "fill"} => addr >= job.offset /\ Mirrors(Done)
    /\ pc = "head" => buf = <<>>
    /\ pc = "fill" => left > 0
    /\ pc \in {"head", "fill"} /\ left > 0 => Stream
    /\ pc = "head" /\ left = 0 => job.size <= pos /\ Done = PadUp(job.size)
    /\ pc \in Settling => Mirrors(Limit)

Downloading ==
  pc = "dump" => left = job.size - Len(out) /\ (Fits => addr = job.offset + Len(out))

\* The settings that were made or detected are those of the ROM in the memory.
Boots(file) == file.boots /\ Header(Boot) = Native(file, Boot)
Settings ==
  /\ pc = "cic" /\ "cic" \in job.auto => Boots(found)
  /\ pc \in {"lookup", "header", "save"} /\ "cic" \in job.auto /\ HasCic => Boots(cic)
  /\ pc = "header" => found = Nothing
  /\ pc = "header" /\ WholeRom => job.file.save # "db"
  /\ pc = "save" /\ WholeRom /\ ~misread => found = RightSave(job.file)

\* What is left when a command has ended.
Ended == pc = "idle" => UploadIsPrefix /\ UploadComplete /\ CicFits /\ SaveFits

Inv ==
  /\ TypeOK /\ Where /\ Feeding /\ Uploading /\ Downloading /\ DownloadIsPrefix
  /\ Settings /\ Ended
------------------------------------------------------------------------------
(* Arithmetic *)

\* Euclidean division by a positive number.
LEMMA Division ==
  ASSUME NEW a \in Nat, NEW n \in Nat \ {0}
  PROVE  /\ a \div n \in Nat
         /\ a % n \in 0 .. n - 1
         /\ a = n * (a \div n) + (a % n)
  OBVIOUS

\* Quotient and remainder are unique.
LEMMA DivisionUnique ==
  ASSUME NEW k \in Nat, NEW n \in Nat \ {0}, NEW r \in 0 .. n - 1
  PROVE  (n * k + r) \div n = k /\ (n * k + r) % n = r
  OBVIOUS

\* A multiple of the sector has no remainder, and the other way round.
LEMMA Multiples ==
  ASSUME NEW n \in Nat \ {0}, NEW m \in Nat
  PROVE  m % n = 0 <=> \E k \in Nat : m = n * k
PROOF
<1>1. ASSUME m % n = 0 PROVE \E k \in Nat : m = n * k
  <2>1. m \div n \in Nat /\ m = n * (m \div n)
    BY <1>1, Division
  <2> QED
    BY <2>1
<1>2. ASSUME NEW k \in Nat, m = n * k PROVE m % n = 0
  <2>1. (n * k + 0) % n = 0
    BY DivisionUnique
  <2>2. n * k \in Nat
    OBVIOUS
  <2> QED
    BY <1>2, <2>1, <2>2
<1> QED
  BY <1>1, <1>2

\* The sum of two multiples is a multiple.
LEMMA SumOfMultiples ==
  ASSUME NEW n \in Nat \ {0}, NEW a \in Nat, NEW b \in Nat, a % n = 0, b % n = 0
  PROVE  (a + b) % n = 0
PROOF
<1>1. PICK k \in Nat, l \in Nat : a = n * k /\ b = n * l
  BY Multiples
<1>2. n * k + n * l = n * (k + l) /\ k + l \in Nat
  OBVIOUS
<1>3. a + b = n * (k + l)
  BY <1>1, <1>2
<1>4. a + b \in Nat
  OBVIOUS
<1> QED
  BY <1>2, <1>3, <1>4, Multiples

\* A multiple of a multiple is a multiple.
LEMMA MultipleOfMultiple ==
  ASSUME NEW n \in Nat \ {0}, NEW b \in Nat \ {0}, NEW c \in Nat, c % b = 0, b % n = 0
  PROVE  c % n = 0
PROOF
<1>1. PICK k \in Nat, l \in Nat : c = b * k /\ b = n * l
  BY Multiples
<1>2. (n * l) * k = n * (l * k) /\ l * k \in Nat
  OBVIOUS
<1> QED
  BY <1>1, <1>2, Multiples

\* The number of a 64drive's sectors, in units: the least multiple that is not less.
LEMMA PadUpFacts ==
  ASSUME NEW n \in Nat
  PROVE  /\ PadUp(n) \in Nat /\ n <= PadUp(n) /\ PadUp(n) < n + Pad
         /\ PadUp(n) % Pad = 0
         /\ n % Pad = 0 => PadUp(n) = n
PROOF
<1> DEFINE k == (n + Pad - 1) \div Pad
           r == (n + Pad - 1) % Pad
<1>1. Pad \in Nat \ {0} /\ n + Pad - 1 \in Nat
  BY TransferAssumption
<1>2. k \in Nat /\ r \in 0 .. Pad - 1 /\ n + Pad - 1 = Pad * k + r
  <2> DEFINE a == n + Pad - 1
  <2>1. a \in Nat
    BY <1>1
  <2> HIDE DEF a
  <2>2. a \div Pad \in Nat /\ a % Pad \in 0 .. Pad - 1 /\ a = Pad * (a \div Pad) + (a % Pad)
    BY <1>1, <2>1, Division
  <2> QED
    BY <2>2 DEF a
<1>3. PadUp(n) = Pad * k
  <2>1. PadUp(n) = k * Pad
    BY DEF PadUp
  <2> HIDE DEF k
  <2> QED
    BY <1>1, <1>2, <2>1
<1> HIDE DEF k, r
<1>4. Pad * k \in Nat
  BY <1>1, <1>2
<1>5. PadUp(n) \in Nat /\ n <= PadUp(n) /\ PadUp(n) < n + Pad
  BY <1>1, <1>2, <1>3, <1>4
<1>6. PadUp(n) % Pad = 0
  BY <1>1, <1>2, <1>3, <1>4, Multiples
<1>7. ASSUME n % Pad = 0 PROVE PadUp(n) = n
  <2>1. PICK l \in Nat : n = Pad * l
    BY <1>1, <1>7, Multiples
  <2>2. k <= l
    <3>1. SUFFICES ASSUME l + 1 <= k PROVE FALSE
      BY <1>2
    <3>2. Pad * (l + 1) <= Pad * k
      BY <1>1, <1>2, <3>1
    <3>3. Pad * (l + 1) = Pad * l + Pad
      BY <1>1
    <3> QED
      BY <1>1, <1>2, <1>3, <1>5, <2>1, <3>2, <3>3
  <2>3. Pad * k <= Pad * l
    BY <1>1, <1>2, <2>2
  <2> QED
    BY <1>1, <1>3, <1>4, <1>5, <2>1, <2>3
<1> QED
  BY <1>5, <1>6, <1>7

\* Padding comes after the sectors that are full, and more units take no fewer sectors.
LEMMA PadUpAfter ==
  ASSUME NEW m \in Nat, NEW n \in Nat, m % Pad = 0
  PROVE  PadUp(m + n) = m + PadUp(n)
PROOF
<1>1. Pad \in Nat \ {0} /\ m + n \in Nat
  BY TransferAssumption
<1>2. PICK l \in Nat : m = Pad * l
  BY <1>1, Multiples
<1>3. PICK i \in Nat : PadUp(n) = Pad * i
  BY <1>1, PadUpFacts, Multiples
<1>4. PICK j \in Nat : PadUp(m + n) = Pad * j
  BY <1>1, PadUpFacts, Multiples
<1>5. /\ n <= Pad * i /\ Pad * i < n + Pad
      /\ m + n <= Pad * j /\ Pad * j < m + n + Pad
  BY <1>1, <1>3, <1>4, PadUpFacts
<1>6. Pad * (l + i) = Pad * l + Pad * i /\ Pad * (l + i + 1) = Pad * l + Pad * i + Pad
  BY <1>1
<1>7. Pad * (j + 1) = Pad * j + Pad
  BY <1>1
<1>8. j <= l + i
  <2>1. SUFFICES ASSUME l + i + 1 <= j PROVE FALSE
    OBVIOUS
  <2>2. Pad * (l + i + 1) <= Pad * j
    BY <1>1, <2>1
  <2> QED
    BY <1>1, <1>2, <1>5, <1>6, <2>2
<1>9. l + i <= j
  <2>1. SUFFICES ASSUME j + 1 <= l + i PROVE FALSE
    OBVIOUS
  <2>2. Pad * (j + 1) <= Pad * (l + i)
    BY <1>1, <2>1
  <2> QED
    BY <1>1, <1>2, <1>5, <1>6, <1>7, <2>2
<1> QED
  BY <1>2, <1>3, <1>4, <1>6, <1>8, <1>9

\* More units take no fewer sectors.
LEMMA PadUpMonotone ==
  ASSUME NEW m \in Nat, NEW n \in Nat, m <= n
  PROVE  PadUp(m) <= PadUp(n)
PROOF
<1>1. Pad \in Nat \ {0}
  BY TransferAssumption
<1>2. PICK i \in Nat : PadUp(m) = Pad * i
  BY <1>1, PadUpFacts, Multiples
<1>3. PICK j \in Nat : PadUp(n) = Pad * j
  BY <1>1, PadUpFacts, Multiples
<1>4. SUFFICES ASSUME j + 1 <= i PROVE FALSE
  <2>1. ASSUME i <= j PROVE Pad * i <= Pad * j
    BY <1>1, <2>1
  <2> QED
    BY <1>2, <1>3, <2>1
<1>5. Pad * (j + 1) <= Pad * i
  BY <1>1, <1>4
<1>6. Pad * (j + 1) = Pad * j + Pad
  BY <1>1
<1>7. Pad * i < m + Pad /\ n <= Pad * j /\ Pad * i \in Nat /\ Pad * j \in Nat
  BY <1>1, <1>2, <1>3, PadUpFacts
<1> QED
  BY <1>1, <1>5, <1>6, <1>7

\* A command is a multiple of the sector.
LEMMA ChunkAligned == Chunk \in Nat \ {0} /\ Chunk % Pad = 0
PROOF
<1>1. Chunk \in Nat \ {0} /\ Block \in Nat \ {0} /\ Pad \in Nat \ {0}
  BY TransferAssumption
<1>2. Chunk % Block = 0 /\ Block % Pad = 0
  BY TransferAssumption
<1> QED
  BY <1>1, <1>2, MultipleOfMultiple

\* The least element of a set is its minimum.
LEMMA Least ==
  ASSUME NEW S \in SUBSET Int, NEW m \in S, \A x \in S : m <= x
  PROVE  Min(S) = m
PROOF
<1>1. \A x \in S : (\A y \in S : x <= y) <=> x = m
  OBVIOUS
<1>2. Min(S) = CHOOSE x \in S : \A y \in S : x <= y
  BY DEF Min
<1> QED
  BY <1>1, <1>2

\* The minimum of two numbers.
LEMMA LeastOfTwo ==
  ASSUME NEW a \in Int, NEW b \in Int
  PROVE  Min({a, b}) = IF a <= b THEN a ELSE b
PROOF
<1>1. CASE a <= b
  BY <1>1, Least
<1>2. CASE ~(a <= b)
  BY <1>2, Least
<1> QED
  BY <1>1, <1>2

------------------------------------------------------------------------------
(* Files, their contents and the jobs *)

\* A function on the first numbers is a sequence.
LEMMA SequenceOf ==
  ASSUME NEW n \in Nat, NEW f \in [1 .. n -> Cells]
  PROVE  f \in Seq(Cells) /\ Len(f) = n
PROOF
<1>1. f \in Seq(Cells)
  OBVIOUS
<1> QED
  BY <1>1, LenProperties

\* The units of two sequences, one after the other.
LEMMA Joined ==
  ASSUME NEW s \in Seq(Cells), NEW t \in Seq(Cells)
  PROVE  /\ s \o t \in Seq(Cells) /\ Len(s \o t) = Len(s) + Len(t)
         /\ \A i \in 1 .. Len(s) : (s \o t)[i] = s[i]
         /\ \A i \in 1 .. Len(t) : (s \o t)[Len(s) + i] = t[i]
PROOF
<1>1. Len(s) \in Nat /\ Len(t) \in Nat
  BY LenProperties
<1>2. /\ s \o t \in Seq(Cells) /\ Len(s \o t) = Len(s) + Len(t)
      /\ \A i \in 1 .. Len(s) + Len(t) :
           (s \o t)[i] = IF i <= Len(s) THEN s[i] ELSE t[i - Len(s)]
  BY ConcatProperties
<1>3. ASSUME NEW i \in 1 .. Len(t)
      PROVE  /\ Len(s) + i \in 1 .. Len(s) + Len(t) /\ ~(Len(s) + i <= Len(s))
             /\ (Len(s) + i) - Len(s) = i
  BY <1>1
<1> QED
  BY <1>1, <1>2, <1>3

\* A file, or none.
LEMMA FileTyped ==
  ASSUME NEW file \in Files \cup {Nothing}
  PROVE  /\ file.length \in Nat /\ file.boots \in BOOLEAN /\ file.swapped \in BOOLEAN
         /\ file.save = "ed64" => file.length >= Pad
         /\ file.save \in {"db", "ed64", "none"}
PROOF
<1>1. CASE file \in Files
  <2>1. file \in [name : STRING, length : Nat, swapped : BOOLEAN, boots : BOOLEAN,
                  save : {"db", "ed64", "none"}]
    BY <1>1, TransferAssumption
  <2>2. file.save = "ed64" => file.length >= Pad
    BY <1>1, TransferAssumption
  <2> QED
    BY <2>1, <2>2
<1>2. CASE file = Nothing
  BY <1>2 DEF Nothing
<1> QED
  BY <1>1, <1>2

\* The units of a part of a file.
LEMMA ContentFacts ==
  ASSUME NEW file \in Files \cup {Nothing}, NEW first \in Nat, NEW last \in Nat, first <= last,
         NEW swap \in BOOLEAN
  PROVE  /\ Content(file, first, last, swap) \in Seq(Cells)
         /\ Len(Content(file, first, last, swap)) = last - first
         /\ \A i \in 1 .. last - first :
              Content(file, first, last, swap)[i]
                = [file |-> file, at |-> first + i - 1, swap |-> swap]
PROOF
<1> DEFINE n == last - first
<1>1. n \in Nat /\ \A i \in 1 .. n : first + i - 1 \in Nat
  OBVIOUS
<1>2. \A i \in 1 .. n : [file |-> file, at |-> first + i - 1, swap |-> swap] \in Cells
  BY <1>1 DEF Cells
<1>3. Content(file, first, last, swap) \in [1 .. n -> Cells]
  BY <1>2 DEF Content
<1>4. Content(file, first, last, swap) \in Seq(Cells)
  BY <1>1, <1>3
<1>5. Len(Content(file, first, last, swap)) = n
  BY <1>1, <1>4, LenProperties, <1>3
<1> QED
  BY <1>4, <1>5 DEF Content

\* What is known of the bank and of the addresses.
LEMMA SpaceFacts == MemorySize \in Nat \ {0} /\ Space \in Nat \ {0} /\ MemorySize < Space
  BY TransferAssumption

\* An address is cut to what a uint32 holds.
LEMMA AddressCut ==
  ASSUME NEW a \in Int
  PROVE  a % Space \in 0 .. Space - 1 /\ (a \in 0 .. Space - 1 => a % Space = a)
PROOF
<1>1. PICK m \in Nat \ {0} : m = Space
  BY SpaceFacts
<1>2. a % m \in 0 .. m - 1 /\ (a \in 0 .. m - 1 => a % m = a)
  OBVIOUS
<1> QED
  BY <1>1, <1>2

\* What is known of the command that is running.
LEMMA JobTyped ==
  ASSUME TypeOK
  PROVE  /\ job.cmd \in Cmds /\ job.file \in Files \cup {Nothing} /\ job.size \in Nat
         /\ job.offset \in Nat /\ job.offset \in 0 .. Space - 1
         /\ job.swap \in BOOLEAN /\ job.auto \in SUBSET {"cic", "save"} /\ job.on \in BOOLEAN
         /\ job.file.length \in Nat
PROOF
<1>1. job \in [cmd : Cmds, file : Files \cup {Nothing}, size : Nat, offset : 0 .. Space - 1,
               swap : BOOLEAN, auto : SUBSET {"cic", "save"}, on : BOOLEAN]
  BY DEF TypeOK, Jobs
<1>2. job.offset \in Nat
  <2>1. Space \in Nat
    BY TransferAssumption
  <2> QED
    BY <1>1, <2>1
<1>3. job.file.length \in Nat
  BY <1>1, FileTyped
<1> QED
  BY <1>1, <1>2, <1>3

\* What an upload is to write.
LEMMA AskedFacts ==
  ASSUME TypeOK
  PROVE  /\ Asked \in Nat /\ Asked <= job.size /\ Asked <= job.file.length
         /\ Asked = IF job.size <= job.file.length THEN job.size ELSE job.file.length
         /\ PadUp(Asked) \in Nat /\ PadUp(job.size) \in Nat
         /\ Asked <= PadUp(Asked) /\ PadUp(Asked) <= PadUp(job.size)
         /\ job.size <= PadUp(job.size)
         /\ Extent = IF job.cmd = "upload" THEN Limit ELSE PadUp(job.size)
         /\ Extent \in Nat /\ MemorySize \in Nat
PROOF
<1>1. job.size \in Nat /\ job.file.length \in Nat /\ MemorySize \in Nat
  BY JobTyped, SpaceFacts
<1>2. Asked = IF job.size <= job.file.length THEN job.size ELSE job.file.length
  BY <1>1, LeastOfTwo DEF Asked
<1>3. Asked \in Nat /\ Asked <= job.size
  BY <1>1, <1>2
<1>4. Extent = IF job.cmd = "upload" THEN Limit ELSE PadUp(job.size)
  BY DEF Extent, Limit
<1> QED
  BY <1>1, <1>2, <1>3, <1>4, PadUpFacts, PadUpMonotone DEF Limit

\* The beginnings of the commands, and where each begins.
Begins == Upload \/ Download \/ Cic \/ Savetype \/ Extended
Begun(j) ==
  \/ /\ j.cmd = "upload" /\ j.file \in Files /\ pc' \in {"extended", "open"} /\ found' = found
  \/ /\ j.file = Nothing
     /\ \/ j.cmd = "download" /\ pc' = "dump" /\ j.auto = {} /\ found' = found
        \/ j.cmd = "cic" /\ pc' = "boot" /\ j.auto = {"cic"} /\ found' = found
        \/ j.cmd = "cic" /\ pc' = "cic" /\ j.auto = {} /\ found' \in Files
        \/ j.cmd = "savetype" /\ pc' = "save" /\ j.auto = {} /\ found' \in Files \cup {Nothing}
        \/ j.cmd = "extended" /\ pc' = "extended" /\ j.auto = {} /\ found' = found

\* A command begins with a job of its own.
LEMMA BegunFacts ==
  ASSUME Begins
  PROVE  job' \in Jobs /\ Begun(job') /\ Start(job')
PROOF
<1>1. NoJob \in Jobs /\ 0 \in Nat /\ {} \in SUBSET {"cic", "save"}
  BY SpaceFacts DEF NoJob, Jobs, Cmds
<1>2. \A wide \in Offsets : wide % Space \in 0 .. Space - 1
  BY AddressCut, TransferAssumption
<1>3. NoJob.file = Nothing /\ NoJob.auto = {} /\ NoJob.size = 0 /\ NoJob.offset = 0
  BY DEF NoJob
<1>4. Sizes \subseteq Nat /\ \A file \in Files : file.length \in Nat
  BY FileTyped, TransferAssumption
<1>5. CASE Upload
  <2>1. PICK file \in Files, option \in Sizes, wide \in Offsets, swap \in BOOLEAN,
             auto \in SUBSET {"cic", "save"} :
          LET size == IF option = 0 THEN file.length ELSE option
              offset == wide % Space
          IN  /\ option % Pad = 0
              /\ Start([NoJob EXCEPT !.cmd = "upload", !.file = file, !.size = size,
                                     !.offset = offset, !.swap = swap, !.auto = auto])
              /\ UNCHANGED found
              /\ pc' = IF offset = 0 /\ size > Large THEN "extended" ELSE "open"
    BY <1>5 DEF Upload
  <2> DEFINE size == IF option = 0 THEN file.length ELSE option
             offset == wide % Space
             j == [NoJob EXCEPT !.cmd = "upload", !.file = file, !.size = size,
                                !.offset = offset, !.swap = swap, !.auto = auto]
  <2>2. size \in Nat /\ offset \in 0 .. Space - 1
    BY <1>2, <1>4
  <2>3. Start(j) /\ found' = found /\ pc' \in {"extended", "open"}
    BY <2>1
  <2> HIDE DEF size, offset
  <2>4. j \in Jobs
    BY <1>1, <2>2 DEF Jobs, Cmds
  <2>5. j.cmd = "upload" /\ j.file = file /\ j.size = size /\ j.offset = offset
    BY <1>1, <2>2 DEF Jobs, Cmds
  <2> HIDE DEF j
  <2>6. job' = j
    BY <2>3 DEF Start
  <2> QED
    BY <2>3, <2>4, <2>5, <2>6 DEF Begun
<1>6. CASE Download
  <2>1. PICK size \in Sizes, wide \in Offsets, swap \in BOOLEAN :
          /\ Start([NoJob EXCEPT !.cmd = "download", !.size = size, !.offset = wide % Space,
                                 !.swap = swap])
          /\ pc' = "dump" /\ found' = found
    BY <1>6 DEF Download
  <2> DEFINE offset == wide % Space
  <2>2. job' = [NoJob EXCEPT !.cmd = "download", !.size = size, !.offset = offset, !.swap = swap]
    BY <2>1 DEF Start
  <2>3. offset \in 0 .. Space - 1 /\ Start(job') /\ pc' = "dump" /\ found' = found
    BY <1>2, <2>1, <2>2
  <2> HIDE DEF offset
  <2>4. job' \in Jobs
    BY <1>1, <1>4, <2>2, <2>3 DEF Jobs, Cmds
  <2>5. /\ job'.cmd = "download" /\ job'.file = Nothing /\ job'.size = size
        /\ job'.offset = offset /\ job'.auto = {}
    BY <1>1, <1>3, <2>2 DEF Jobs, Cmds
  <2> QED
    BY <2>3, <2>4, <2>5 DEF Begun
<1>7. CASE Cic
  <2>1. CASE /\ Start([NoJob EXCEPT !.cmd = "cic", !.auto = {"cic"}])
             /\ pc' = "boot" /\ UNCHANGED found
    <3>1. job' = [NoJob EXCEPT !.cmd = "cic", !.auto = {"cic"}]
      BY <2>1 DEF Start
    <3>2. job' \in Jobs
      BY <1>1, <3>1 DEF Jobs, Cmds
    <3>3. /\ job'.cmd = "cic" /\ job'.file = Nothing
          /\ job'.auto = {"cic"}
      BY <1>1, <1>3, <3>1 DEF Jobs, Cmds
    <3> QED
      BY <2>1, <3>1, <3>2, <3>3 DEF Begun
  <2>2. CASE Start([NoJob EXCEPT !.cmd = "cic"]) /\ pc' = "cic" /\ found' \in Files
    <3>1. job' = [NoJob EXCEPT !.cmd = "cic"]
      BY <2>2 DEF Start
    <3>2. job' \in Jobs
      BY <1>1, <3>1 DEF Jobs, Cmds
    <3>3. /\ job'.cmd = "cic" /\ job'.file = Nothing
          /\ job'.auto = {}
      BY <1>1, <1>3, <3>1 DEF Jobs, Cmds
    <3> QED
      BY <2>2, <3>1, <3>2, <3>3 DEF Begun
  <2> QED
    BY <1>7, <2>1, <2>2 DEF Cic
<1>8. CASE Savetype
  <2>1. Start([NoJob EXCEPT !.cmd = "savetype"]) /\ pc' = "save" /\ found' \in Files \cup {Nothing}
    BY <1>8 DEF Savetype
  <2>2. job' = [NoJob EXCEPT !.cmd = "savetype"]
    BY <2>1 DEF Start
  <2>3. job' \in Jobs
    BY <1>1, <2>2 DEF Jobs, Cmds
  <2>4. /\ job'.cmd = "savetype" /\ job'.file = Nothing
        /\ job'.auto = {}
    BY <1>1, <1>3, <2>2 DEF Jobs, Cmds
  <2> QED
    BY <2>1, <2>2, <2>3, <2>4 DEF Begun
<1>9. CASE Extended
  <2>1. PICK on \in BOOLEAN : Start([NoJob EXCEPT !.cmd = "extended", !.on = on])
    BY <1>9 DEF Extended
  <2>2. job' = [NoJob EXCEPT !.cmd = "extended", !.on = on]
    BY <2>1 DEF Start
  <2>3. job' \in Jobs
    BY <1>1, <2>2 DEF Jobs, Cmds
  <2>4. /\ job'.cmd = "extended" /\ job'.file = Nothing
        /\ job'.auto = {}
    BY <1>1, <1>3, <2>2 DEF Jobs, Cmds
  <2>5. pc' = "extended" /\ found' = found
    BY <1>9 DEF Extended
  <2> QED
    BY <2>1, <2>2, <2>3, <2>4, <2>5 DEF Begun
<1> QED
  BY <1>5, <1>6, <1>7, <1>8, <1>9 DEF Begins

------------------------------------------------------------------------------
(* A read of the file, a part of the pipe, a chunk *)

\* What a read of the goroutine returns.
LastRead == Min({pos + Block, job.file.length})
UnitsRead == Content(job.file, pos, LastRead, LastRead = pos + Block /\ job.swap)

\* It is what follows in the file, as far as it goes.
LEMMA ReadFacts ==
  ASSUME TypeOK, pos <= job.file.length
  PROVE  /\ LastRead \in Nat /\ pos <= LastRead /\ LastRead <= job.file.length
         /\ LastRead <= pos + Block
         /\ LastRead # pos + Block => LastRead = job.file.length
         /\ UnitsRead \in Seq(Cells) /\ Len(UnitsRead) = LastRead - pos
         /\ \A i \in 1 .. LastRead - pos :
              UnitsRead[i].file = job.file /\ UnitsRead[i].at = pos + i - 1
PROOF
<1>1. pos \in Nat /\ job.file.length \in Nat /\ Block \in Nat \ {0}
  BY JobTyped, TransferAssumption DEF TypeOK
<1>2. LastRead = IF pos + Block <= job.file.length THEN pos + Block ELSE job.file.length
  BY <1>1, LeastOfTwo DEF LastRead
<1>3. LastRead \in Nat /\ pos <= LastRead /\ LastRead <= job.file.length
  BY <1>1, <1>2
<1>4. job.file \in Files \cup {Nothing} /\ job.swap \in BOOLEAN
  BY JobTyped
<1>5. PICK swap \in BOOLEAN : UnitsRead = Content(job.file, pos, LastRead, swap)
  BY <1>4 DEF UnitsRead
<1>6. /\ UnitsRead \in Seq(Cells) /\ Len(UnitsRead) = LastRead - pos
      /\ \A i \in 1 .. LastRead - pos :
           UnitsRead[i] = [file |-> job.file, at |-> pos + i - 1, swap |-> swap]
  <2>1. PICK last \in Nat : last = LastRead
    BY <1>3
  <2>2. /\ Content(job.file, pos, last, swap) \in Seq(Cells)
        /\ Len(Content(job.file, pos, last, swap)) = last - pos
        /\ \A i \in 1 .. last - pos :
             Content(job.file, pos, last, swap)[i]
               = [file |-> job.file, at |-> pos + i - 1, swap |-> swap]
    <3>1. pos \in Nat /\ pos <= last /\ job.file \in Files \cup {Nothing}
      BY <1>1, <1>3, <1>4, <2>1
    <3> QED
      BY <3>1, ContentFacts
  <2> QED
    BY <1>5, <2>1, <2>2
<1>7. \A i \in 1 .. LastRead - pos : UnitsRead[i].file = job.file /\ UnitsRead[i].at = pos + i - 1
  BY <1>6
<1> QED
  BY <1>1, <1>2, <1>3, <1>6, <1>7

\* What a step of the goroutine that reads does.
LEMMA ReadStep ==
  ASSUME ReadFile
  PROVE  \/ /\ pos' = LastRead /\ block' = UnitsRead /\ hashed' = hashed \o UnitsRead
            /\ end' = IF LastRead = pos + Block THEN "more"
                      ELSE IF UnitsRead = <<>> THEN "EOF" ELSE "error"
         \/ end' = "error" /\ UNCHANGED <<pos, block, hashed>>
  BY DEF ReadFile, LastRead, UnitsRead

\* A chunk that is wanted.
LEMMA WantedFacts ==
  ASSUME TypeOK
  PROVE  /\ Wanted \in Nat /\ Wanted <= Chunk /\ Wanted <= left
         /\ Wanted = IF Chunk <= left THEN Chunk ELSE left
         /\ left > 0 => Wanted > 0
PROOF
<1>1. Chunk \in Nat \ {0} /\ left \in Nat
  BY ChunkAligned DEF TypeOK
<1> QED
  BY <1>1, LeastOfTwo DEF Wanted

\* What io.ReadFull takes of the pipe.
Taken == Min({Len(block), Wanted - Len(buf)})

\* It goes from the pipe to the chunk.
LEMMA FillFacts ==
  ASSUME TypeOK, Fill
  PROVE  /\ Taken \in Nat \ {0} /\ Taken <= Len(block) /\ Len(buf) + Taken <= Wanted
         /\ buf' \in Seq(Cells) /\ block' \in Seq(Cells)
         /\ Len(buf') = Len(buf) + Taken /\ Len(block') = Len(block) - Taken
         /\ \A i \in 1 .. Len(buf) : buf'[i] = buf[i]
         /\ \A i \in 1 .. Taken : buf'[Len(buf) + i] = block[i]
         /\ \A i \in 1 .. Len(block') : block'[i] = block[Taken + i]
PROOF
<1>1. /\ buf \in Seq(Cells) /\ block \in Seq(Cells) /\ Len(buf) \in Nat /\ Len(block) \in Nat
      /\ block # <<>>
  BY LenProperties DEF TypeOK, Fill
<1>2. Len(block) > 0
  BY <1>1, EmptySeq
<1>3. Wanted \in Nat /\ Len(buf) < Wanted
  BY WantedFacts DEF Fill
<1>4. Taken = IF Len(block) <= Wanted - Len(buf) THEN Len(block) ELSE Wanted - Len(buf)
  BY <1>1, <1>3, LeastOfTwo DEF Taken
<1>5. Taken \in Nat \ {0} /\ Taken <= Len(block) /\ Len(buf) + Taken <= Wanted
  BY <1>1, <1>2, <1>3, <1>4
<1>6. buf' = buf \o SubSeq(block, 1, Taken) /\ block' = SubSeq(block, Taken + 1, Len(block))
  BY DEF Fill, Taken
<1> DEFINE part == SubSeq(block, 1, Taken)
<1>7. /\ part \in Seq(Cells) /\ Len(part) = Taken
      /\ \A i \in 1 .. Taken : part[i] = block[i]
  BY <1>1, <1>5, SubSeqProperties
<1>8. /\ block' \in Seq(Cells) /\ Len(block') = Len(block) - Taken
      /\ \A i \in 1 .. Len(block) - Taken : block'[i] = block[Taken + i]
  BY <1>1, <1>5, <1>6, SubSeqProperties
<1> HIDE DEF part
<1>9. /\ buf' \in Seq(Cells) /\ Len(buf') = Len(buf) + Taken
      /\ \A i \in 1 .. Len(buf) : buf'[i] = buf[i]
      /\ \A i \in 1 .. Taken : buf'[Len(buf) + i] = part[i]
  <2>1. buf' = buf \o part
    BY <1>6 DEF part
  <2> QED
    BY <1>1, <1>5, <1>7, <2>1, Joined
<1> QED
  BY <1>5, <1>7, <1>8, <1>9

\* The chunk that is loaded.
LEMMA PaddedFacts ==
  ASSUME TypeOK
  PROVE  /\ Padded \in Seq(Cells) /\ Len(Padded) = PadUp(Len(buf)) /\ Len(buf) \in Nat
         /\ \A i \in 1 .. Len(buf) : Padded[i] = buf[i]
         /\ \A i \in Len(buf) + 1 .. Len(Padded) : Padded[i] = Filler
PROOF
<1>1. buf \in Seq(Cells) /\ Len(buf) \in Nat
  BY LenProperties DEF TypeOK
<1> DEFINE n == PadUp(Len(buf)) - Len(buf)
           padding == [i \in 1 .. n |-> Filler]
<1>2. n \in Nat
  BY <1>1, PadUpFacts
<1>3. Filler \in Cells
  BY DEF Filler, Cells
<1>4. padding \in Seq(Cells) /\ Len(padding) = n /\ \A i \in 1 .. n : padding[i] = Filler
  <2> HIDE DEF n
  <2>1. padding \in [1 .. n -> Cells]
    BY <1>3
  <2>2. padding \in Seq(Cells)
    BY <1>2, <2>1
  <2> QED
    BY <1>2, <2>1, <2>2, LenProperties
<1>5. Padded = buf \o padding
  BY DEF Padded
<1> HIDE DEF padding
<1>6. /\ Padded \in Seq(Cells) /\ Len(Padded) = Len(buf) + n
      /\ \A i \in 1 .. Len(buf) : Padded[i] = buf[i]
      /\ \A i \in 1 .. n : Padded[Len(buf) + i] = padding[i]
  <2> HIDE DEF n
  <2> QED
    BY <1>1, <1>2, <1>4, <1>5, Joined
<1>7. PadUp(Len(buf)) \in Nat /\ Len(Padded) = PadUp(Len(buf))
  BY <1>1, <1>6, PadUpFacts
<1>8. \A i \in Len(buf) + 1 .. Len(Padded) : Padded[i] = Filler
  <2> HIDE DEF n
  <2> TAKE i \in Len(buf) + 1 .. Len(Padded)
  <2>1. i - Len(buf) \in 1 .. n /\ i = Len(buf) + (i - Len(buf))
    BY <1>1, <1>2, <1>6
  <2> QED
    BY <1>4, <1>6, <2>1
<1> QED
  BY <1>1, <1>6, <1>7, <1>8

\* What the 64drive may hold after a load is a memory.
LEMMA StoredTyped ==
  ASSUME TypeOK, NEW units \in Seq(Cells), NEW n \in 0 .. Len(units),
         NEW next \in Stored(units, n, addr)
  PROVE  next \in [0 .. MemorySize - 1 -> Cells]
PROOF
<1>1. /\ memory \in [0 .. MemorySize - 1 -> Cells] /\ addr \in Nat /\ MemorySize \in Nat \ {0}
      /\ Len(units) \in Nat
  BY SpaceFacts, LenProperties DEF TypeOK
<1>2. DOMAIN memory = 0 .. MemorySize - 1 /\ n \in Nat /\ n <= Len(units)
  BY <1>1
<1>3. \A i \in 1 .. n : units[i] \in Cells
  BY <1>1, <1>2, ElementOfSeq
<1>4. CASE next = Loaded(units, n, addr)
  <2>1. ASSUME NEW a \in 0 .. MemorySize - 1, a \in addr .. addr + n - 1
        PROVE  units[a - addr + 1] \in Cells
    <3>1. a - addr + 1 \in 1 .. n
      BY <1>1, <1>2, <2>1
    <3> QED
      BY <1>3, <3>1
  <2> QED
    BY <1>1, <1>2, <1>4, <2>1 DEF Loaded
<1>5. CASE next = LoadedAround(units, n, addr)
  <2> DEFINE last(a) == n - ((addr + n - 1 - a) % MemorySize)
  <2>1. ASSUME NEW a \in 0 .. MemorySize - 1, last(a) > 0
        PROVE  units[last(a)] \in Cells
    <3>1. (addr + n - 1 - a) % MemorySize \in 0 .. MemorySize - 1
      <4>1. PICK k \in Int, m \in Nat \ {0} : k = addr + n - 1 - a /\ m = MemorySize
        BY <1>1, <1>2
      <4>2. k % m \in 0 .. m - 1
        OBVIOUS
      <4> QED
        BY <4>1, <4>2
    <3>2. last(a) \in 1 .. n
      BY <1>1, <1>2, <2>1, <3>1
    <3> QED
      BY <1>3, <3>2
  <2>2. next = [a \in 0 .. MemorySize - 1 |-> IF last(a) > 0 THEN units[last(a)] ELSE memory[a]]
    BY <1>2, <1>5 DEF LoadedAround
  <2> HIDE DEF last
  <2> QED
    BY <1>1, <2>1, <2>2
<1> QED
  BY <1>4, <1>5 DEF Stored

\* In the bank there is one memory that the 64drive may hold.
LEMMA StoredInside ==
  ASSUME NEW units, NEW n, addr + n <= MemorySize
  PROVE  Stored(units, n, addr) = {Loaded(units, n, addr)}
  BY DEF Stored

\* The memory of an upload that is at its chunk n, and what a load leaves of it.
LEMMA ChunkFits ==
  ASSUME Inv, Load, Fits
  PROVE  /\ job.cmd = "upload" /\ Done \in Nat /\ Done % Pad = 0 /\ left = job.size - Done
         /\ addr = job.offset + Done /\ left > 0
         /\ Len(Padded) \in Nat /\ Len(buf) <= Len(Padded)
         /\ Done + Len(buf) <= Asked /\ Done + Len(buf) <= pos
         /\ Done + Len(Padded) <= Limit /\ addr + Len(Padded) <= MemorySize
         /\ Len(buf) < Len(Padded) => Done + Len(buf) = job.size
         /\ left > Len(Padded) => (Done + Len(Padded)) % Pad = 0 /\ Len(Padded) = Len(buf)
         /\ left <= Len(Padded)
              => Done + Len(buf) = job.size /\ Done + Len(Padded) = PadUp(job.size)
PROOF
<1>1. job.cmd = "upload" /\ pc = "fill" /\ Len(buf) = Wanted
  BY DEF Load, Inv, Where
<1>2. TypeOK
  BY DEF Inv
<1>3. job.size \in Nat /\ job.offset \in Nat /\ job.file.length \in Nat
  BY <1>2, JobTyped
<1>4. left > 0 /\ addr >= job.offset /\ Stream
  BY <1>1, <1>2 DEF Inv, Uploading
<1>5. Pad \in Nat \ {0}
  BY TransferAssumption
<1>6. Done \in Nat /\ addr = job.offset + Done /\ left \in Nat /\ pos \in Nat
  BY <1>2, <1>3, <1>4 DEF Done, TypeOK
<1>7. left = job.size - Done /\ Done + Len(buf) + Len(block) = pos
  BY <1>4 DEF Stream
<1>8. Done % Pad = 0
  BY <1>4 DEF Stream
<1>9. Chunk \in Nat
  BY ChunkAligned
<1>10. Len(Padded) = PadUp(Len(buf)) /\ Len(buf) \in Nat /\ Len(block) \in Nat
  BY <1>2, PaddedFacts, LenProperties DEF TypeOK
<1>11. Len(Padded) \in Nat /\ Len(buf) <= Len(Padded)
  BY <1>10, PadUpFacts
<1>12. pos <= job.file.length
  BY DEF Inv, Feeding
<1>13. Wanted \in Nat /\ Wanted = IF Chunk <= left THEN Chunk ELSE left
  BY <1>2, WantedFacts
<1> HIDE DEF Done
<1>14. Done + Len(buf) <= job.size /\ Done + Len(buf) <= pos /\ Done + Len(buf) <= job.file.length
  <2>1. Len(buf) <= left
    BY <1>1, <1>6, <1>13, <1>9
  <2>2. PICK d \in Nat, b \in Nat, s \in Nat, p \in Nat, l \in Nat, q \in Nat :
          /\ d = Done /\ b = Len(buf) /\ s = job.size /\ p = pos /\ l = job.file.length
          /\ q = Len(block)
    BY <1>3, <1>6, <1>10
  <2>3. b <= s - d /\ d + b + q = p /\ p <= l
    BY <1>7, <1>12, <2>1, <2>2
  <2>4. d + b <= s /\ d + b <= p /\ d + b <= l
    BY <2>3
  <2> QED
    BY <2>2, <2>4
<1>15. Asked \in Nat /\ Done + Len(buf) <= Asked
  BY <1>2, <1>3, <1>6, <1>10, <1>14, AskedFacts
<1>16. PadUp(Done + Len(buf)) = Done + Len(Padded)
  BY <1>6, <1>8, <1>10, PadUpAfter
<1>17. Done + Len(Padded) <= Limit
  BY <1>6, <1>10, <1>15, <1>16, PadUpMonotone DEF Limit
<1>18. Chunk <= left => Len(Padded) = Len(buf) /\ Len(buf) = Chunk
  BY <1>1, <1>10, <1>13, ChunkAligned, PadUpFacts
<1>19. left < Chunk => Len(buf) = left
  BY <1>1, <1>6, <1>13, <1>9
<1>20. Chunk \in Nat \ {0} /\ Chunk % Pad = 0
  BY ChunkAligned
<1>21. ASSUME Len(buf) < Len(Padded) PROVE Done + Len(buf) = job.size
  <2>1. left < Chunk
    BY <1>6, <1>9, <1>10, <1>11, <1>18, <1>21
  <2>2. Len(buf) = left
    BY <1>19, <2>1
  <2> QED
    BY <1>3, <1>6, <1>7, <2>2
<1>22. ASSUME left > Len(Padded) PROVE (Done + Len(Padded)) % Pad = 0 /\ Len(Padded) = Len(buf)
  <2>1. Len(Padded) = Chunk /\ Len(Padded) = Len(buf)
    BY <1>6, <1>11, <1>18, <1>19, <1>9, <1>22
  <2> QED
    BY <1>5, <1>6, <1>8, <1>20, <2>1, SumOfMultiples
<1>23. ASSUME left <= Len(Padded)
       PROVE  Done + Len(buf) = job.size /\ Done + Len(Padded) = PadUp(job.size)
  <2>1. Len(buf) = left
    BY <1>6, <1>11, <1>18, <1>19, <1>9, <1>23
  <2>2. Done + Len(buf) = job.size
    BY <1>3, <1>6, <1>7, <2>1
  <2> QED
    BY <1>16, <2>2
<1>24. addr + Len(Padded) <= MemorySize
  <2>1. Extent = Limit /\ Extent \in Nat /\ MemorySize \in Nat
    BY <1>1, <1>2, AskedFacts
  <2>2. job.offset + Extent <= MemorySize
    BY DEF Fits
  <2> QED
    BY <1>3, <1>6, <1>11, <1>17, <2>1, <2>2
<1> QED
  BY <1>1, <1>4, <1>6, <1>7, <1>8, <1>11, <1>14, <1>15, <1>17, <1>21, <1>22, <1>23, <1>24

\* A load at the end of what is mirrored: h is mirrored at o up to d, and b units of it follow.
LEMMA LoadedInPlace ==
  ASSUME NEW size \in Nat, NEW o \in Nat, NEW d \in Nat, NEW n \in Nat, NEW b \in Nat,
         NEW l \in Nat, NEW asked \in Nat, NEW s \in Nat, NEW p \in Nat,
         NEW m, NEW next, NEW old, NEW h, NEW units,
         n <= l, b <= l, d + b <= asked, d + b <= p, asked <= s, b < l => d + b = s,
         \A i \in 1 .. b : units[i] = h[d + i],
         \A i \in b + 1 .. l : units[i] = Filler,
         \A a \in 0 .. size - 1 :
           next[a] = IF a \in (o + d) .. (o + d) + n - 1 THEN units[a - (o + d) + 1] ELSE m[a],
         \A a \in 0 .. size - 1 :
           IF a \in o .. o + d - 1
           THEN IF a - o < asked THEN a - o < p /\ m[a] = h[a - o + 1] ELSE m[a] = Filler
           ELSE m[a] = old[a]
  PROVE  \A a \in 0 .. size - 1 :
           IF a \in o .. o + (d + n) - 1
           THEN IF a - o < asked THEN a - o < p /\ next[a] = h[a - o + 1] ELSE next[a] = Filler
           ELSE next[a] = old[a]
PROOF
<1> TAKE a \in 0 .. size - 1
<1>1. a \in Nat
  OBVIOUS
<1>2. CASE a \in (o + d) .. (o + d) + n - 1
  <2>1. PICK i \in Nat : i = a - (o + d) + 1
    BY <1>1, <1>2
  <2>2. next[a] = units[i] /\ a \in o .. o + (d + n) - 1 /\ a - o + 1 = d + i
    BY <1>1, <1>2, <2>1
  <2>3. CASE i <= b
    <3>1. i \in 1 .. b /\ a - o < asked /\ a - o < p
      BY <1>1, <1>2, <2>1, <2>3
    <3> QED
      BY <2>2, <3>1
  <2>4. CASE ~(i <= b)
    <3>1. i \in b + 1 .. l /\ ~(a - o < asked)
      BY <1>1, <1>2, <2>1, <2>4
    <3> QED
      BY <2>2, <3>1
  <2> QED
    BY <2>3, <2>4
<1>3. CASE ~(a \in (o + d) .. (o + d) + n - 1)
  <2>1. next[a] = m[a]
    BY <1>3
  <2>2. a \in o .. o + (d + n) - 1 <=> a \in o .. o + d - 1
    BY <1>1, <1>3
  <2> QED
    BY <2>1, <2>2
<1> QED
  BY <1>2, <1>3

\* A load of a part of the chunk extends what is mirrored, and touches nothing else.
LEMMA LoadMirrors ==
  ASSUME Inv, Load, Fits, NEW n \in 0 .. Len(Padded), memory' = Loaded(Padded, n, addr)
  PROVE  \A a \in 0 .. MemorySize - 1 :
           IF a \in job.offset .. job.offset + (Done + n) - 1
           THEN IF a - job.offset < Asked
                THEN a - job.offset < pos /\ memory'[a] = hashed[a - job.offset + 1]
                ELSE memory'[a] = Filler
           ELSE memory'[a] = before[a]
PROOF
<1>1. TypeOK
  BY DEF Inv
<1>2. memory \in [0 .. MemorySize - 1 -> Cells] /\ MemorySize \in Nat /\ pos \in Nat
  BY <1>1, TransferAssumption DEF TypeOK
<1>3. /\ Padded \in Seq(Cells) /\ Len(buf) \in Nat
      /\ \A i \in 1 .. Len(buf) : Padded[i] = buf[i]
      /\ \A i \in Len(buf) + 1 .. Len(Padded) : Padded[i] = Filler
  BY <1>1, PaddedFacts
<1>4. /\ job.cmd = "upload" /\ Done \in Nat /\ addr = job.offset + Done
      /\ Len(Padded) \in Nat /\ Len(buf) <= Len(Padded)
      /\ Done + Len(buf) <= Asked /\ Done + Len(buf) <= pos
      /\ Len(buf) < Len(Padded) => Done + Len(buf) = job.size
  BY ChunkFits
<1>5. job.offset \in Nat /\ job.size \in Nat /\ Asked \in Nat /\ Asked <= job.size
  BY <1>1, JobTyped, AskedFacts
<1>6. pc = "fill" /\ left > 0
  BY <1>4, ChunkFits DEF Load
<1>7. Mirrors(Done) /\ \A i \in 1 .. Len(buf) : buf[i] = hashed[Done + i]
  BY <1>4, <1>6 DEF Inv, Uploading, Stream
<1>8. \A a \in 0 .. MemorySize - 1 :
        memory'[a] = IF a \in addr .. addr + n - 1 THEN Padded[a - addr + 1] ELSE memory[a]
  BY <1>2 DEF Loaded
<1>11. \A a \in 0 .. MemorySize - 1 :
         IF a \in job.offset .. job.offset + Done - 1
         THEN IF a - job.offset < Asked
              THEN a - job.offset < pos /\ memory[a] = hashed[a - job.offset + 1]
              ELSE memory[a] = Filler
         ELSE memory[a] = before[a]
  BY <1>7 DEF Mirrors
<1>12. \A i \in 1 .. Len(buf) : Padded[i] = hashed[Done + i]
  BY <1>3, <1>7
<1>13. n \in Nat /\ n <= Len(Padded)
  BY <1>4
<1>14. PICK M \in Nat, o \in Nat, d \in Nat, b \in Nat, l \in Nat, asked \in Nat, s \in Nat,
            p \in Nat, k \in Nat :
         /\ M = MemorySize /\ o = job.offset /\ d = Done /\ b = Len(buf) /\ l = Len(Padded)
         /\ asked = Asked /\ s = job.size /\ p = pos /\ k = n
  BY <1>2, <1>3, <1>4, <1>5, <1>13
<1> HIDE DEF Done
<1>15. \A a \in 0 .. M - 1 :
         IF a \in o .. o + (d + k) - 1
         THEN IF a - o < asked THEN a - o < p /\ memory'[a] = hashed[a - o + 1]
              ELSE memory'[a] = Filler
         ELSE memory'[a] = before[a]
  <2>1. /\ k <= l /\ b <= l /\ d + b <= asked /\ d + b <= p /\ asked <= s
        /\ b < l => d + b = s
    BY <1>4, <1>5, <1>13, <1>14
  <2>2. /\ \A i \in 1 .. b : Padded[i] = hashed[d + i]
        /\ \A i \in b + 1 .. l : Padded[i] = Filler
    BY <1>3, <1>12, <1>14
  <2>3. \A a \in 0 .. M - 1 :
          memory'[a] = IF a \in (o + d) .. (o + d) + k - 1
                       THEN Padded[a - (o + d) + 1] ELSE memory[a]
    BY <1>4, <1>8, <1>14
  <2>4. \A a \in 0 .. M - 1 :
          IF a \in o .. o + d - 1
          THEN IF a - o < asked THEN a - o < p /\ memory[a] = hashed[a - o + 1]
               ELSE memory[a] = Filler
          ELSE memory[a] = before[a]
    BY <1>11, <1>14
  <2> QED
    BY <2>1, <2>2, <2>3, <2>4, LoadedInPlace
<1> QED
  BY <1>14, <1>15

------------------------------------------------------------------------------
(* Every step keeps the invariant *)

\* Each command stays at its own places.
LEMMA KeepsWhere ==
  ASSUME Inv, [Next]_vars
  PROVE  Where'
PROOF
<1>1. CASE Begins
  BY <1>1, BegunFacts DEF Start, drive, goroutine, Inv, Where, Begun, Settling
<1>2. CASE SetExtended
  BY <1>2 DEF SetExtended, Exit, command, goroutine, Inv, Where
<1>3. CASE Open
  BY <1>3 DEF Open, drive, command, transfer, Inv, Where
<1>4. CASE NextChunk
  BY <1>4 DEF NextChunk, Exit, Proceed, AfterUpload, AfterCic, drive, command, goroutine, Inv,
       Where
<1>5. CASE Fill
  BY <1>5 DEF Fill, drive, command, Inv, Where
<1>6. CASE FillEnds
  BY <1>6 DEF FillEnds, Exit, Proceed, AfterUpload, AfterCic, drive, command, goroutine, Inv,
       Where
<1>7. CASE Load
  BY <1>7 DEF Load, Exit, command, goroutine, Inv, Where
<1>8. CASE ReadBoot
  BY <1>8 DEF ReadBoot, Exit, drive, command, goroutine, Inv, Where
<1>9. CASE SetCic
  BY <1>9 DEF SetCic, Exit, Proceed, AfterCic, command, goroutine, Inv, Where
<1>10. CASE LookUp
  BY <1>10 DEF LookUp, drive, command, transfer, goroutine, Inv, Where
<1>11. CASE ReadHeader
  BY <1>11 DEF ReadHeader, drive, command, transfer, goroutine, Inv, Where
<1>12. CASE SetSave
  BY <1>12 DEF SetSave, Exit, command, Inv, Where
<1>13. CASE Dump
  BY <1>13 DEF Dump, Exit, drive, command, goroutine, Inv, Where
<1>14. CASE DumpEnds
  BY <1>14 DEF DumpEnds, Exit, drive, command, Inv, Where
<1>15. CASE Fail
  BY <1>15 DEF Fail, Exit, drive, command, Inv, Where
<1>16. CASE ReadFile
  BY <1>16 DEF ReadFile, drive, command, transfer, Inv, Where
<1>17. CASE Written
  BY <1>17 DEF Written, drive, command, transfer, Inv, Where
<1>18. CASE Interrupt
  BY <1>18 DEF Interrupt, drive, command, goroutine, Inv, Where
<1>19. CASE Kill
  BY <1>19 DEF Kill, Exit, drive, command, Inv, Where
<1>20. CASE UNCHANGED vars
  BY <1>20 DEF vars, drive, command, transfer, goroutine, Inv, Where
<1> QED
  BY <1>1, <1>2, <1>3, <1>4, <1>5, <1>6, <1>7, <1>8, <1>9, <1>10, <1>11, <1>12, <1>13, <1>14,
       <1>15, <1>16, <1>17, <1>18, <1>19, <1>20 DEF Next, Host, Goroutine, Begins

\* A goroutine that is not there has read nothing.
LEMMA NotFeeding ==
  ASSUME job'.file.length \in Nat, producer' = "off", end' = "more", pos' = 0, block' = <<>>,
         hashed' = <<>>
  PROVE  Feeding'
PROOF
<1>1. Len(hashed') = 0 /\ pos' <= job'.file.length
  OBVIOUS
<1> QED
  BY <1>1 DEF Feeding

\* It ends with the process.
LEMMA ExitEndsFeeding ==
  ASSUME TypeOK, NEW r, Exit(r)
  PROVE  Feeding'
PROOF
<1>1. job'.file.length \in Nat
  BY JobTyped DEF Exit, command
<1> QED
  BY <1>1, NotFeeding DEF Exit

\* What the goroutine has read is what it hashed.
LEMMA KeepsFeeding ==
  ASSUME Inv, [Next]_vars
  PROVE  Feeding'
PROOF
<1>1. CASE Begins
  <2>1. job' \in Jobs /\ Start(job')
    BY <1>1, BegunFacts
  <2>2. job'.file.length \in Nat
    BY <2>1, FileTyped DEF Jobs
  <2>3. producer' = "off" /\ end' = "more" /\ pos' = 0 /\ block' = <<>> /\ hashed' = <<>>
    <3>1. Len(hashed) = 0 /\ hashed \in Seq(Cells)
      BY <2>1 DEF Start, Inv, Feeding, TypeOK
    <3>2. hashed = <<>>
      BY <3>1, EmptySeq
    <3> QED
      BY <2>1, <3>2 DEF Start, Inv, Feeding, goroutine
  <2> QED
    BY <2>2, <2>3, NotFeeding
<1>2. CASE SetExtended
  <2>1. CASE UNCHANGED <<command, goroutine>> /\ pc' = "open"
    BY <1>2, <2>1 DEF SetExtended, Inv, Feeding, Where, command, goroutine
  <2>2. ASSUME NEW r, Exit(r) PROVE Feeding'
    BY <2>2, ExitEndsFeeding DEF Inv
  <2> QED
    BY <1>2, <2>1, <2>2 DEF SetExtended, command, goroutine
<1>3. CASE Open
  BY <1>3 DEF Open, drive, command, transfer, Inv, Feeding, Where
<1>4. CASE NextChunk
  <2>1. CASE UNCHANGED <<command, goroutine>> /\ pc' \notin {"idle", "extended", "open"}
    BY <1>4, <2>1 DEF NextChunk, Inv, Feeding, Where, command, goroutine
  <2>2. ASSUME NEW r, Exit(r) PROVE Feeding'
    BY <2>2, ExitEndsFeeding DEF Inv
  <2> QED
    BY <1>4, <2>1, <2>2 DEF NextChunk, Proceed, AfterUpload, AfterCic, drive, command, goroutine
<1>5. CASE Fill
  BY <1>5 DEF Fill, drive, command, Inv, Feeding, Where
<1>6. CASE FillEnds
  <2>1. CASE UNCHANGED <<command, goroutine>> /\ pc' \notin {"idle", "extended", "open"}
    BY <1>6, <2>1 DEF FillEnds, Inv, Feeding, Where, command, goroutine
  <2>2. ASSUME NEW r, Exit(r) PROVE Feeding'
    BY <2>2, ExitEndsFeeding DEF Inv
  <2> QED
    BY <1>6, <2>1, <2>2 DEF FillEnds, Proceed, AfterUpload, AfterCic, drive, command, goroutine
<1>7. CASE Load
  <2>1. CASE UNCHANGED <<command, goroutine>> /\ pc' \notin {"idle", "extended", "open"}
    BY <1>7, <2>1 DEF Load, Inv, Feeding, Where, command, goroutine
  <2>2. ASSUME NEW r, Exit(r) PROVE Feeding'
    BY <2>2, ExitEndsFeeding DEF Inv
  <2> QED
    BY <1>7, <2>1, <2>2 DEF Load, command, goroutine
<1>8. CASE ReadBoot
  <2>1. CASE UNCHANGED <<command, goroutine>> /\ pc' \notin {"idle", "extended", "open"}
    BY <1>8, <2>1 DEF ReadBoot, Inv, Feeding, Where, command, goroutine
  <2>2. ASSUME NEW r, Exit(r) PROVE Feeding'
    BY <2>2, ExitEndsFeeding DEF Inv
  <2> QED
    BY <1>8, <2>1, <2>2 DEF ReadBoot, drive, command, goroutine
<1>9. CASE SetCic
  <2>1. CASE UNCHANGED <<command, goroutine>> /\ pc' \notin {"idle", "extended", "open"}
    BY <1>9, <2>1 DEF SetCic, Inv, Feeding, Where, command, goroutine
  <2>2. ASSUME NEW r, Exit(r) PROVE Feeding'
    BY <2>2, ExitEndsFeeding DEF Inv
  <2> QED
    BY <1>9, <2>1, <2>2 DEF SetCic, Proceed, AfterCic, command, goroutine
<1>10. CASE LookUp
  BY <1>10 DEF LookUp, drive, command, transfer, goroutine, Inv, Feeding, Where
<1>11. CASE ReadHeader
  BY <1>11 DEF ReadHeader, drive, command, transfer, goroutine, Inv, Feeding, Where
<1>12. CASE SetSave
  BY <1>12, ExitEndsFeeding DEF SetSave, Inv
<1>13. CASE Dump
  <2>1. CASE UNCHANGED <<command, goroutine>> /\ pc' \notin {"idle", "extended", "open"}
    BY <1>13, <2>1 DEF Dump, Inv, Feeding, Where, command, goroutine
  <2>2. ASSUME NEW r, Exit(r) PROVE Feeding'
    BY <2>2, ExitEndsFeeding DEF Inv
  <2> QED
    BY <1>13, <2>1, <2>2 DEF Dump, drive, command, goroutine
<1>14. CASE DumpEnds
  BY <1>14, ExitEndsFeeding DEF DumpEnds, Inv
<1>15. CASE Fail
  BY <1>15, ExitEndsFeeding DEF Fail, Inv
<1>16. CASE ReadFile
  <2>1. TypeOK /\ pos <= job.file.length /\ pos \in Nat /\ Block \in Nat \ {0}
    BY TransferAssumption DEF Inv, Feeding, TypeOK
  <2>2. /\ producer' = "write" /\ job' = job /\ pc' = pc /\ producer = "read" /\ block = <<>>
    BY <1>16 DEF ReadFile, command, Inv, Feeding
  <2>3. CASE UNCHANGED <<pos, block, hashed>> /\ end' = "error"
    BY <2>2, <2>3 DEF Inv, Feeding
  <2>4. CASE /\ pos' = LastRead /\ block' = UnitsRead /\ hashed' = hashed \o UnitsRead
             /\ end' = IF LastRead = pos + Block THEN "more"
                       ELSE IF UnitsRead = <<>> THEN "EOF" ELSE "error"
    <3>1. /\ LastRead \in Nat /\ pos <= LastRead /\ LastRead <= job.file.length
          /\ LastRead # pos + Block => LastRead = job.file.length
          /\ UnitsRead \in Seq(Cells) /\ Len(UnitsRead) = LastRead - pos
          /\ \A i \in 1 .. LastRead - pos :
               UnitsRead[i].file = job.file /\ UnitsRead[i].at = pos + i - 1
      BY <2>1, ReadFacts
    <3>2. hashed \in Seq(Cells) /\ Len(hashed) = pos
      BY DEF Inv, TypeOK, Feeding
    <3>3. /\ Len(hashed') = LastRead
          /\ \A i \in 1 .. pos : hashed'[i] = hashed[i]
          /\ \A i \in 1 .. LastRead - pos : hashed'[pos + i] = UnitsRead[i]
      <4>1. /\ Len(hashed \o UnitsRead) = Len(hashed) + Len(UnitsRead)
            /\ \A i \in 1 .. Len(hashed) : (hashed \o UnitsRead)[i] = hashed[i]
            /\ \A i \in 1 .. Len(UnitsRead) :
                 (hashed \o UnitsRead)[Len(hashed) + i] = UnitsRead[i]
        BY <3>1, <3>2, Joined
      <4>2. hashed' = hashed \o UnitsRead
        BY <2>4
      <4>3. Len(hashed) + Len(UnitsRead) = LastRead
        BY <2>1, <3>1, <3>2
      <4> QED
        BY <3>1, <3>2, <4>1, <4>2, <4>3
    <3>4. ASSUME NEW i \in 1 .. LastRead
          PROVE  hashed'[i].file = job.file /\ hashed'[i].at = i - 1
      <4>1. CASE i <= pos
        BY <2>1, <3>3, <4>1 DEF Inv, Feeding
      <4>2. CASE ~(i <= pos)
        <5>1. i - pos \in 1 .. LastRead - pos /\ i = pos + (i - pos) /\ pos + (i - pos) - 1 = i - 1
          BY <2>1, <3>1, <4>2
        <5>2. hashed'[i] = UnitsRead[i - pos]
          BY <3>3, <5>1
        <5> QED
          BY <3>1, <5>1, <5>2
      <4> QED
        BY <4>1, <4>2
    <3>5. end' = "EOF" => pos' = job.file.length /\ block' = <<>>
      BY <2>4, <3>1
    <3>6. job.cmd = "upload" /\ pc \notin {"idle", "extended", "open"}
      BY <2>2 DEF Inv, Feeding
    <3> QED
      BY <2>2, <2>4, <3>1, <3>3, <3>4, <3>5, <3>6 DEF Feeding
  <2> QED
    BY <1>16, <2>3, <2>4, ReadStep
<1>17. CASE Written
  BY <1>17 DEF Written, drive, command, transfer, Inv, Feeding, Where
<1>18. CASE Interrupt
  BY <1>18 DEF Interrupt, drive, command, goroutine, Inv, Feeding, Where
<1>19. CASE Kill
  BY <1>19, ExitEndsFeeding DEF Kill, Inv
<1>20. CASE UNCHANGED vars
  BY <1>20 DEF vars, drive, command, transfer, goroutine, Inv, Feeding, Where
<1> QED
  BY <1>1, <1>2, <1>3, <1>4, <1>5, <1>6, <1>7, <1>8, <1>9, <1>10, <1>11, <1>12, <1>13, <1>14,
       <1>15, <1>16, <1>17, <1>18, <1>19, <1>20 DEF Next, Host, Goroutine, Begins

\* The types when the process has ended.
LEMMA ExitTyped ==
  ASSUME TypeOK, NEW r \in {"ok", "error", "interrupted", "killed"}, Exit(r),
         memory' \in [0 .. MemorySize - 1 -> Cells], extended' \in BOOLEAN,
         {cic', save'} \subseteq Files \cup {Nothing}, out' \in Seq(Cells)
  PROVE  TypeOK'
PROOF
<1>1. Space \in Nat \ {0} /\ Chunk \in Nat /\ Block \in Nat
  BY ChunkAligned, SpaceFacts, TransferAssumption
<1>2. /\ pc' = "idle" /\ result' = r /\ left' = 0 /\ addr' = 0 /\ buf' = <<>>
      /\ cancelled' = FALSE /\ found' = Nothing /\ producer' = "off" /\ end' = "more"
      /\ pos' = 0 /\ block' = <<>> /\ hashed' = <<>> /\ misread' = misread
      /\ job' = job /\ calls' = calls /\ before' = before
  BY DEF Exit, command
<1>3. buf' \in Seq(Cells) /\ Len(buf') = 0 /\ block' \in Seq(Cells) /\ Len(block') = 0
      /\ hashed' \in Seq(Cells)
  BY <1>2
<1>4. Len(buf') <= Chunk /\ Len(block') <= Block /\ addr' \in 0 .. Space - 1
  BY <1>1, <1>2, <1>3
<1>5. {cic', save', found'} \subseteq Files \cup {Nothing} /\ {out', hashed'} \subseteq Seq(Cells)
  BY <1>2, <1>3
<1>6. {cancelled', misread'} \subseteq BOOLEAN
  BY <1>2 DEF TypeOK
<1> QED
  BY <1>2, <1>3, <1>4, <1>5, <1>6 DEF TypeOK

\* The types when the upload goes on.
LEMMA ProceedTyped ==
  ASSUME TypeOK, Proceed(AfterUpload) \/ Proceed(AfterCic), UNCHANGED <<memory, save, extended>>,
         cic' \in Files \cup {Nothing}
  PROVE  TypeOK'
PROOF
<1>1. Chunk \in Nat
  BY ChunkAligned
<1>2. PICK next \in {"boot", "lookup", "done"} : Proceed(next)
  BY DEF AfterUpload, AfterCic
<1>3. CASE next = "done"
  <2>1. Exit("ok") /\ out' = out
    BY <1>2, <1>3 DEF Proceed
  <2> QED
    BY <2>1, ExitTyped DEF TypeOK
<1>4. CASE next # "done"
  <2>1. /\ pc' = next /\ left' = 0 /\ buf' = <<>> /\ cancelled' = FALSE
        /\ UNCHANGED <<result, found, misread, command, addr, out, goroutine>>
    BY <1>2, <1>4 DEF Proceed
  <2>2. buf' \in Seq(Cells) /\ Len(buf') <= Chunk
    BY <1>1, <2>1
  <2>3. /\ {cic', save', found'} \subseteq Files \cup {Nothing}
        /\ {cancelled', misread'} \subseteq BOOLEAN
    BY <2>1 DEF TypeOK
  <2>4. /\ UNCHANGED <<result, addr, out, job, calls, before, memory, extended>>
        /\ UNCHANGED <<producer, end, pos, block, hashed>> /\ left' = 0 /\ pc' = next
    BY <2>1 DEF command, goroutine
  <2>5. {out', hashed'} \subseteq Seq(Cells) /\ block' \in Seq(Cells) /\ Len(block') <= Block
    BY <2>4 DEF TypeOK
  <2>6. /\ memory' \in [0 .. MemorySize - 1 -> Cells] /\ extended' \in BOOLEAN /\ job' \in Jobs
        /\ result' \in {"none", "ok", "error", "interrupted", "killed"}
        /\ calls' \in 0 .. MaxCalls /\ addr' \in 0 .. Space - 1
        /\ producer' \in {"off", "read", "write", "closed"} /\ end' \in {"more", "EOF", "error"}
        /\ pos' \in Nat /\ before' \in [0 .. MemorySize - 1 -> Cells] /\ left' \in Nat
    BY <2>4 DEF TypeOK
  <2>7. pc' \in {"idle", "extended", "open", "head", "fill", "boot", "cic", "lookup", "header",
                 "save", "dump"}
    <3>1. next \in {"boot", "lookup", "done"}
      BY <1>2
    <3>2. pc' \in {"boot", "lookup", "done"} /\ pc' # "done"
      BY <1>4, <2>4, <3>1
    <3> QED
      BY <3>2
  <2> QED
    BY <2>2, <2>3, <2>5, <2>6, <2>7 DEF TypeOK
<1> QED
  BY <1>3, <1>4

\* A unit that is read back.
LEMMA CellReadTyped ==
  ASSUME TypeOK, NEW a
  PROVE  CellRead(a) \in Cells
PROOF
<1> DEFINE cell == IF a \in DOMAIN memory THEN memory[a] ELSE Blank
<1>1. Blank \in Cells
  BY DEF Blank, Cells
<1>2. cell \in [file : Files \cup {Nothing}, at : Nat, swap : BOOLEAN]
  BY <1>1 DEF TypeOK, Cells
<1> HIDE DEF cell
<1>3. [cell EXCEPT !.swap = (cell.swap # job.swap)] \in Cells
  BY <1>2 DEF Cells
<1> QED
  BY <1>3 DEF CellRead, cell

\* What is read back, in the bank and outside of it.
LEMMA DumpedFacts ==
  ASSUME TypeOK, NEW n \in Nat, NEW units \in Dumped(n)
  PROVE  /\ units \in Seq(Cells) /\ Len(units) = n
         /\ \A i \in 1 .. n : addr + i - 1 < MemorySize => units[i] = CellRead(addr + i - 1)
PROOF
<1>1. addr \in Nat /\ MemorySize \in Nat \ {0} /\ memory \in [0 .. MemorySize - 1 -> Cells]
  BY SpaceFacts DEF TypeOK
<1>2. \A a : CellRead(a) \in Cells
  BY CellReadTyped
<1>3. CASE units = [i \in 1 .. n |-> CellRead(addr + i - 1)]
  <2>1. units \in [1 .. n -> Cells]
    BY <1>1, <1>2, <1>3
  <2>2. units \in Seq(Cells) /\ Len(units) = n
    BY <2>1, SequenceOf
  <2> QED
    BY <1>3, <2>2
<1>4. CASE units = [i \in 1 .. n |-> CellRead((addr + i - 1) % MemorySize)]
  <2>1. units \in [1 .. n -> Cells]
    BY <1>2, <1>4
  <2>2. units \in Seq(Cells) /\ Len(units) = n
    BY <2>1, SequenceOf
  <2>3. ASSUME NEW i \in 1 .. n, addr + i - 1 < MemorySize
        PROVE  (addr + i - 1) % MemorySize = addr + i - 1
    <3>1. PICK k \in Nat, m \in Nat \ {0} : k = addr + i - 1 /\ m = MemorySize
      BY <1>1
    <3>2. k < m => k % m = k
      OBVIOUS
    <3> QED
      BY <2>3, <3>1, <3>2
  <2> QED
    BY <1>4, <2>2, <2>3
<1> QED
  BY <1>3, <1>4 DEF Dumped

\* A part of it is written to the file.
LEMMA DumpFacts ==
  ASSUME Inv, Dump
  PROVE  /\ Wanted \in Nat /\ left - Wanted \in Nat
         /\ \E n \in 0 .. Wanted :
              /\ out' \in Seq(Cells) /\ Len(out') = Len(out) + n
              /\ \A i \in 1 .. Len(out) : out'[i] = out[i]
              /\ Fits => \A i \in 1 .. n : out'[Len(out) + i] = CellRead(addr + i - 1)
              /\ \/ Exit("error")
                 \/ /\ n = Wanted /\ left' = left - Wanted
                    /\ addr' \in 0 .. Space - 1 /\ (Fits => addr' = addr + Wanted)
                    /\ UNCHANGED <<pc, result, found, misread, command, buf, cancelled, goroutine>>
PROOF
<1>1. TypeOK /\ pc = "dump" /\ left \in Nat /\ addr \in Nat /\ out \in Seq(Cells)
  <2>1. TypeOK /\ pc = "dump"
    BY DEF Inv, Dump
  <2>2. left \in Nat /\ addr \in 0 .. Space - 1 /\ out \in Seq(Cells)
    BY <2>1 DEF TypeOK
  <2> QED
    BY <2>1, <2>2, SpaceFacts
<1>2. Wanted \in Nat /\ Wanted <= left
  BY <1>1, WantedFacts
<1>3. left = job.size - Len(out) /\ job.cmd = "download" /\ (Fits => addr = job.offset + Len(out))
  BY <1>1 DEF Inv, Downloading, Where
<1>4. /\ job.offset \in Nat /\ job.size \in Nat /\ Len(out) \in Nat
      /\ MemorySize \in Nat /\ Space \in Nat /\ MemorySize < Space
  BY <1>1, JobTyped, LenProperties, SpaceFacts
<1>5. ASSUME Fits PROVE addr + Wanted <= MemorySize
  <2>1. job.offset + PadUp(job.size) <= MemorySize
    BY <1>3, <1>5 DEF Fits, Extent
  <2>2. job.size <= PadUp(job.size) /\ PadUp(job.size) \in Nat
    BY <1>4, PadUpFacts
  <2> QED
    BY <1>2, <1>3, <1>4, <1>5, <2>1, <2>2
<1>6. PadUp(Wanted) \in Nat /\ Wanted <= PadUp(Wanted)
  BY <1>2, PadUpFacts
<1>7. PICK units \in Dumped(PadUp(Wanted)), n \in 0 .. Wanted :
        /\ out' = out \o SubSeq(units, 1, n)
        /\ \/ Exit("error")
           \/ /\ n = Wanted /\ addr' = (addr + Wanted) % Space /\ left' = left - Wanted
              /\ UNCHANGED <<pc, result, found, misread, command, buf, cancelled, goroutine>>
  <2>1. Wanted \in 0 .. Wanted /\ 0 .. Wanted - 1 \subseteq 0 .. Wanted
    BY <1>2
  <2> QED
    BY <2>1 DEF Dump
<1>8. /\ units \in Seq(Cells) /\ Len(units) = PadUp(Wanted)
      /\ \A i \in 1 .. PadUp(Wanted) :
           addr + i - 1 < MemorySize => units[i] = CellRead(addr + i - 1)
  BY <1>1, <1>6, DumpedFacts
<1>9. n \in Nat /\ n <= Wanted /\ n <= PadUp(Wanted)
  BY <1>2, <1>6
<1> DEFINE part == SubSeq(units, 1, n)
<1>10. part \in Seq(Cells) /\ Len(part) = n /\ \A i \in 1 .. n : part[i] = units[i]
  BY <1>8, <1>9, SubSeqProperties
<1>11. out' = out \o part
  BY <1>7
<1> HIDE DEF part
<1>12. /\ out' \in Seq(Cells) /\ Len(out') = Len(out) + n
       /\ \A i \in 1 .. Len(out) : out'[i] = out[i]
       /\ \A i \in 1 .. n : out'[Len(out) + i] = part[i]
  BY <1>1, <1>10, <1>11, Joined
<1>13. ASSUME Fits, NEW i \in 1 .. n PROVE out'[Len(out) + i] = CellRead(addr + i - 1)
  <2>1. i \in 1 .. PadUp(Wanted) /\ addr + i - 1 < MemorySize
    BY <1>1, <1>2, <1>4, <1>5, <1>6, <1>9, <1>13
  <2> QED
    BY <1>8, <1>10, <1>12, <2>1
<1>14. (addr + Wanted) % Space \in 0 .. Space - 1
  BY <1>1, <1>2, AddressCut
<1>15. ASSUME Fits PROVE (addr + Wanted) % Space = addr + Wanted
  <2>1. addr + Wanted \in 0 .. Space - 1
    BY <1>1, <1>2, <1>4, <1>5, <1>15
  <2> QED
    BY <2>1, AddressCut
<1>16. left - Wanted \in Nat
  BY <1>1, <1>2
<1> QED
  BY <1>2, <1>7, <1>12, <1>13, <1>14, <1>15, <1>16

\* Every variable keeps its type.
LEMMA KeepsTypes ==
  ASSUME TypeOK, Inv, [Next]_vars
  PROVE  TypeOK'
PROOF
<1>1. CASE Begins
  <2>1. job' \in Jobs /\ Begun(job') /\ Start(job')
    BY <1>1, BegunFacts
  <2>2. job'.size \in Nat /\ job'.offset \in 0 .. Space - 1
    BY <2>1 DEF Jobs
  <2>3. left' \in Nat /\ addr' \in 0 .. Space - 1
    BY <2>1, <2>2 DEF Start
  <2>4. calls' \in 0 .. MaxCalls
    BY <2>1, TransferAssumption DEF Start, TypeOK
  <2>5. /\ found' \in Files \cup {Nothing}
        /\ pc' \in {"extended", "open", "dump", "boot", "cic", "save"}
    BY <2>1 DEF Begun, TypeOK
  <2>6. out' = <<>> /\ <<>> \in Seq(Cells)
    BY <2>1 DEF Start
  <2> QED
    BY <2>1, <2>3, <2>4, <2>5, <2>6 DEF Start, TypeOK, drive, goroutine
<1>2. CASE SetExtended
  <2>1. extended' \in BOOLEAN /\ UNCHANGED <<memory, cic, save, out>>
    BY <1>2, JobTyped DEF SetExtended
  <2>2. CASE Exit("ok") \/ Exit("error")
    BY <2>1, <2>2, ExitTyped DEF TypeOK
  <2>3. CASE /\ pc' = "open"
             /\ UNCHANGED <<result, found, misread, command, left, addr, buf, cancelled, goroutine>>
    BY <2>1, <2>3 DEF TypeOK, command, goroutine
  <2> QED
    BY <1>2, <2>2, <2>3 DEF SetExtended
<1>3. CASE Open
  BY <1>3 DEF Open, drive, command, transfer, TypeOK
<1>4. CASE NextChunk
  <2>1. UNCHANGED <<drive, out>>
    BY <1>4 DEF NextChunk
  <2>2. CASE Exit("interrupted")
    BY <2>1, <2>2, ExitTyped DEF TypeOK, drive
  <2>3. CASE Proceed(AfterUpload)
    BY <2>1, <2>3, ProceedTyped DEF TypeOK, drive
  <2>4. CASE /\ pc' = "fill"
             /\ UNCHANGED <<result, found, misread, command, left, addr, buf, cancelled, goroutine>>
    BY <2>1, <2>4 DEF TypeOK, drive, command, goroutine
  <2> QED
    BY <1>4, <2>2, <2>3, <2>4 DEF NextChunk
<1>5. CASE Fill
  <2>1. /\ Taken \in Nat \ {0} /\ Len(buf) + Taken <= Wanted
        /\ buf' \in Seq(Cells) /\ block' \in Seq(Cells)
        /\ Len(buf') = Len(buf) + Taken /\ Len(block') = Len(block) - Taken
    BY <1>5, FillFacts
  <2>2. Wanted \in Nat /\ Wanted <= Chunk /\ Chunk \in Nat /\ Block \in Nat
    BY WantedFacts, ChunkAligned, TransferAssumption
  <2>3. Len(buf) \in Nat /\ Len(block) \in Nat /\ Len(block) <= Block
    BY LenProperties DEF TypeOK
  <2>4. Len(buf') <= Chunk /\ Len(block') <= Block
    BY <2>1, <2>2, <2>3
  <2> QED
    BY <1>5, <2>1, <2>4 DEF Fill, TypeOK, drive, command
<1>6. CASE FillEnds
  <2>1. UNCHANGED <<drive, out>>
    BY <1>6 DEF FillEnds
  <2>2. CASE Exit("error")
    BY <2>1, <2>2, ExitTyped DEF TypeOK, drive
  <2>3. CASE Proceed(AfterUpload)
    BY <2>1, <2>3, ProceedTyped DEF TypeOK, drive
  <2> QED
    BY <1>6, <2>2, <2>3 DEF FillEnds
<1>7. CASE Load
  <2>1. UNCHANGED <<cic, save, extended, out>>
    BY <1>7 DEF Load
  <2>2. Len(Padded) \in Nat
    BY PaddedFacts, LenProperties
  <2>3. CASE \E n \in 0 .. Len(Padded) : memory' \in Stored(Padded, n, addr) /\ Exit("error")
    <3>1. memory' \in [0 .. MemorySize - 1 -> Cells]
      BY <2>3, PaddedFacts, StoredTyped
    <3> QED
      BY <2>1, <2>3, <3>1, ExitTyped DEF TypeOK
  <2>4. CASE /\ memory' \in Stored(Padded, Len(Padded), addr)
             /\ addr' = (addr + Len(Padded)) % Space
             /\ left' = IF left > Len(Padded) THEN left - Len(Padded) ELSE 0
             /\ pc' = "head" /\ buf' = <<>>
             /\ UNCHANGED <<result, found, misread, command, cancelled, goroutine>>
    <3>1. memory' \in [0 .. MemorySize - 1 -> Cells]
      BY <2>2, <2>4, PaddedFacts, StoredTyped
    <3>2. left' \in Nat
      BY <2>2, <2>4 DEF TypeOK
    <3>3. addr' \in 0 .. Space - 1
      <4>1. addr + Len(Padded) \in Int
        BY <2>2, SpaceFacts DEF TypeOK
      <4> QED
        BY <2>4, <4>1, AddressCut
    <3>4. <<>> \in Seq(Cells) /\ Len(<<>>) = 0 /\ Chunk \in Nat
      BY ChunkAligned
    <3> QED
      BY <2>1, <2>4, <3>1, <3>2, <3>3, <3>4 DEF TypeOK, command, goroutine
  <2> QED
    BY <1>7, <2>3, <2>4 DEF Load
<1>8. CASE ReadBoot
  <2>1. UNCHANGED <<drive, out>>
    BY <1>8 DEF ReadBoot
  <2>2. CASE Exit("error")
    BY <2>1, <2>2, ExitTyped DEF TypeOK, drive
  <2>3. CASE \E file \in Files :
          /\ found' = file /\ pc' = "cic"
          /\ UNCHANGED <<result, misread, command, left, addr, buf, cancelled, goroutine>>
    BY <2>1, <2>3 DEF TypeOK, drive, command, goroutine
  <2> QED
    BY <1>8, <2>2, <2>3 DEF ReadBoot
<1>9. CASE SetCic
  <2>1. UNCHANGED <<memory, save, extended>> /\ cic' \in Files \cup {Nothing}
    BY <1>9 DEF SetCic, TypeOK
  <2>2. CASE Exit("error") /\ UNCHANGED out
    BY <2>1, <2>2, ExitTyped DEF TypeOK
  <2>3. CASE Proceed(AfterCic)
    BY <2>1, <2>3, ProceedTyped
  <2> QED
    BY <1>9, <2>2, <2>3 DEF SetCic
<1>10. CASE LookUp
  <2>1. found' \in Files \cup {Nothing} /\ pc' \in {"save", "header"}
    BY <1>10 DEF LookUp
  <2> QED
    BY <1>10, <2>1 DEF LookUp, TypeOK, drive, command, transfer, goroutine
<1>11. CASE ReadHeader
  <2>1. found' \in Files \cup {Nothing} /\ misread' \in BOOLEAN
    BY <1>11 DEF ReadHeader, TypeOK
  <2> QED
    BY <1>11, <2>1 DEF ReadHeader, TypeOK, drive, command, transfer, goroutine
<1>12. CASE SetSave
  <2>1. Exit("ok") \/ Exit("error")
    BY <1>12 DEF SetSave
  <2>2. UNCHANGED <<memory, cic, extended, out>> /\ save' = found
    BY <1>12 DEF SetSave
  <2> QED
    BY <2>1, <2>2, ExitTyped DEF TypeOK
<1>13. CASE Dump
  <2>1. UNCHANGED drive /\ left - Wanted \in Nat
    BY <1>13, DumpFacts DEF Dump
  <2>2. /\ out' \in Seq(Cells)
        /\ \/ Exit("error")
           \/ /\ left' = left - Wanted /\ addr' \in 0 .. Space - 1
              /\ UNCHANGED <<pc, result, found, misread, command, buf, cancelled, goroutine>>
    BY <1>13, DumpFacts
  <2>3. CASE Exit("error")
    BY <2>1, <2>2, <2>3, ExitTyped DEF TypeOK, drive
  <2>4. CASE /\ left' = left - Wanted /\ addr' \in 0 .. Space - 1
             /\ UNCHANGED <<pc, result, found, misread, command, buf, cancelled, goroutine>>
    BY <2>1, <2>2, <2>4 DEF TypeOK, drive, command, goroutine
  <2> QED
    BY <2>2, <2>3, <2>4
<1>14. CASE DumpEnds
  <2>1. (Exit("interrupted") \/ Exit("ok")) /\ UNCHANGED <<drive, out>>
    BY <1>14 DEF DumpEnds
  <2> QED
    BY <2>1, ExitTyped DEF TypeOK, drive
<1>15. CASE Fail
  <2>1. Exit("error") /\ UNCHANGED <<drive, out>>
    BY <1>15 DEF Fail
  <2> QED
    BY <2>1, ExitTyped DEF TypeOK, drive
<1>16. CASE ReadFile
  <2>1. pos <= job.file.length /\ pos \in Nat /\ Block \in Nat
    BY TransferAssumption DEF Inv, Feeding, TypeOK
  <2>2. pos' \in Nat /\ block' \in Seq(Cells) /\ Len(block') <= Block /\ hashed' \in Seq(Cells)
    <3>1. /\ LastRead \in Nat /\ pos <= LastRead /\ LastRead <= pos + Block
          /\ UnitsRead \in Seq(Cells) /\ Len(UnitsRead) = LastRead - pos
      BY <2>1, ReadFacts
    <3>2. Len(UnitsRead) <= Block
      BY <2>1, <3>1
    <3>3. hashed \o UnitsRead \in Seq(Cells)
      BY <3>1, Joined DEF TypeOK
    <3> QED
      BY <1>16, <3>1, <3>2, <3>3, ReadStep DEF TypeOK
  <2>3. end' \in {"more", "EOF", "error"}
    BY <1>16, ReadStep
  <2> QED
    BY <1>16, <2>2, <2>3 DEF ReadFile, TypeOK, drive, command, transfer
<1>17. CASE Written
  BY <1>17 DEF Written, drive, command, transfer, TypeOK
<1>18. CASE Interrupt
  BY <1>18 DEF Interrupt, drive, command, goroutine, TypeOK
<1>19. CASE Kill
  <2>1. Exit("killed") /\ UNCHANGED <<drive, out>>
    BY <1>19 DEF Kill
  <2> QED
    BY <2>1, ExitTyped DEF TypeOK, drive
<1>20. CASE UNCHANGED vars
  BY <1>20 DEF vars, drive, command, transfer, goroutine, TypeOK
<1> QED
  BY <1>1, <1>2, <1>3, <1>4, <1>5, <1>6, <1>7, <1>8, <1>9, <1>10, <1>11, <1>12, <1>13, <1>14,
       <1>15, <1>16, <1>17, <1>18, <1>19, <1>20 DEF Next, Host, Goroutine, Begins

\* What depends on the job alone.
LEMMA SameJob ==
  ASSUME UNCHANGED job
  PROVE  Asked' = Asked /\ Limit' = Limit /\ Extent' = Extent /\ (Fits' <=> Fits)
         /\ UNCHANGED Fits
  BY DEF Limit, Asked, Extent, Fits

\* A download has written a beginning of what was asked for.
LEMMA KeepsDownloading ==
  ASSUME TypeOK, Inv, [Next]_vars
  PROVE  Downloading' /\ DownloadIsPrefix'
PROOF
<1>1. CASE Begins
  <2>1. /\ Begun(job') /\ Start(job')
    BY <1>1, BegunFacts
  <2>2. out' = <<>> /\ Len(out') = 0 /\ left' = job'.size /\ addr' = job'.offset /\ result' = "none"
    BY <2>1 DEF Start
  <2>3. job' \in Jobs
    BY <1>1, BegunFacts
  <2>4. job'.size \in Nat /\ job'.offset \in Nat
    BY <2>3, SpaceFacts DEF Jobs
  <2> QED
    BY <2>2, <2>4 DEF Downloading, DownloadIsPrefix
<1>2. CASE SetExtended
  BY <1>2 DEF SetExtended, Exit, command, goroutine, Inv, Where, Downloading,
       DownloadIsPrefix, CellRead, Feeding
<1>3. CASE Open
  BY <1>3 DEF Open, drive, command, transfer, Inv, Where, Downloading, DownloadIsPrefix,
       CellRead, Feeding
<1>4. CASE NextChunk
  BY <1>4 DEF NextChunk, Exit, Proceed, AfterUpload, AfterCic, drive, command, goroutine, Inv,
       Where, Downloading, DownloadIsPrefix, CellRead, Feeding
<1>5. CASE Fill
  BY <1>5 DEF Fill, drive, command, Inv, Where, Downloading, DownloadIsPrefix, CellRead, Feeding
<1>6. CASE FillEnds
  BY <1>6 DEF FillEnds, Exit, Proceed, AfterUpload, AfterCic, drive, command, goroutine, Inv,
       Where, Downloading, DownloadIsPrefix, CellRead, Feeding
<1>7. CASE Load
  BY <1>7 DEF Load, Exit, command, goroutine, Inv, Where, Downloading, DownloadIsPrefix,
       CellRead, Feeding
<1>8. CASE ReadBoot
  BY <1>8 DEF ReadBoot, Exit, drive, command, goroutine, Inv, Where, Downloading,
       DownloadIsPrefix, CellRead, Feeding
<1>9. CASE SetCic
  BY <1>9 DEF SetCic, Exit, Proceed, AfterCic, command, goroutine, Inv, Where, Downloading,
       DownloadIsPrefix, CellRead, Feeding
<1>10. CASE LookUp
  BY <1>10 DEF LookUp, drive, command, transfer, goroutine, Inv, Where, Downloading,
       DownloadIsPrefix, CellRead, Feeding
<1>11. CASE ReadHeader
  BY <1>11 DEF ReadHeader, drive, command, transfer, goroutine, Inv, Where, Downloading,
       DownloadIsPrefix, CellRead, Feeding
<1>12. CASE SetSave
  BY <1>12 DEF SetSave, Exit, command, Inv, Where, Downloading, DownloadIsPrefix, CellRead,
       Feeding
<1>13. CASE Dump
  <2>1. /\ pc = "dump" /\ left > 0 /\ UNCHANGED drive /\ job.cmd = "download" /\ result = "none"
        /\ left = job.size - Len(out) /\ Len(out) <= job.size
        /\ Fits => addr = job.offset + Len(out)
    BY <1>13 DEF Dump, Inv, Where, Downloading, DownloadIsPrefix
  <2>2. PICK n \in 0 .. Wanted :
          /\ Len(out') = Len(out) + n
          /\ \A i \in 1 .. Len(out) : out'[i] = out[i]
          /\ Fits => \A i \in 1 .. n : out'[Len(out) + i] = CellRead(addr + i - 1)
          /\ \/ Exit("error")
             \/ /\ n = Wanted /\ left' = left - Wanted /\ (Fits => addr' = addr + Wanted)
                /\ UNCHANGED <<pc, result, found, misread, command, buf, cancelled, goroutine>>
    BY <1>13, DumpFacts
  <2>3. /\ Wanted \in Nat /\ Wanted <= left /\ n \in Nat /\ n <= Wanted /\ Len(out) \in Nat
        /\ job.size \in Nat /\ job.offset \in Nat /\ left \in Nat
    BY WantedFacts, JobTyped, LenProperties DEF TypeOK
  <2>4. UNCHANGED <<job, memory>> /\ (Fits' <=> Fits)
    BY <2>1, <2>2, SameJob DEF drive, command, Exit
  <2>5. Len(out') <= job'.size /\ (result' = "ok" => Len(out') = job'.size)
    BY <2>1, <2>2, <2>3, <2>4 DEF Exit
  <2>6. PICK l \in Nat, m \in Nat, o \in Nat : l = Len(out) /\ m = n /\ o = job.offset
    BY <2>3
  <2>7. Len(out') = l + m /\ (Fits => addr = o + l)
    BY <2>1, <2>2, <2>6
  <2>8. ASSUME Fits, NEW j \in 1 .. l + m PROVE out'[j] = CellRead(o + j - 1)
    <3>1. CASE j <= l
      <4>1. out'[j] = out[j]
        BY <2>2, <2>6, <3>1
      <4>2. out[j] = CellRead(job.offset + j - 1)
        BY <2>1, <2>6, <2>8, <3>1 DEF Inv, DownloadIsPrefix
      <4> QED
        BY <2>6, <4>1, <4>2
    <3>2. CASE ~(j <= l)
      <4>1. PICK k \in 1 .. m : j = l + k
        <5>1. j - l \in 1 .. m /\ j = l + (j - l)
          BY <3>2
        <5> QED
          BY <5>1
      <4>2. out'[l + k] = CellRead((o + l) + k - 1)
        BY <2>2, <2>6, <2>7, <2>8, <4>1
      <4>3. (o + l) + k - 1 = o + j - 1
        BY <4>1
      <4> QED
        BY <4>1, <4>2, <4>3
    <3> QED
      BY <3>1, <3>2
  <2>9. Fits => \A i \in 1 .. Len(out') : out'[i] = CellRead(job.offset + i - 1)'
    BY <2>4, <2>6, <2>7, <2>8 DEF CellRead
  <2>10. DownloadIsPrefix'
    BY <2>4, <2>5, <2>9 DEF DownloadIsPrefix
  <2>11. Downloading'
    <3>1. CASE Exit("error")
      BY <3>1 DEF Exit, Downloading
    <3>2. CASE n = Wanted /\ left' = left - Wanted /\ (Fits => addr' = addr + Wanted)
      <4>1. PICK s \in Nat, w \in Nat : s = job.size /\ w = Wanted
        BY <2>3
      <4>2. /\ left' = (s - l) - w /\ Len(out') = l + w
            /\ Fits => addr' = (o + l) + w
        BY <2>1, <2>2, <2>6, <2>7, <3>2, <4>1
      <4>3. left' = s - Len(out') /\ (Fits => addr' = o + Len(out'))
        BY <4>2
      <4> QED
        BY <2>4, <2>6, <4>1, <4>3 DEF Downloading
    <3> QED
      BY <2>2, <3>1, <3>2
  <2> QED
    BY <2>10, <2>11
<1>14. CASE DumpEnds
  <2>1. /\ pc = "dump" /\ pc' = "idle" /\ UNCHANGED <<job, memory, out>>
        /\ result' = "ok" => left = 0
    BY <1>14 DEF DumpEnds, Exit, drive, command
  <2>2. left = job.size - Len(out) /\ Len(out) \in Nat /\ job.size \in Nat
    BY <2>1, JobTyped, LenProperties DEF Inv, Downloading, TypeOK
  <2>3. result' = "ok" => Len(out') = job'.size
    BY <2>1, <2>2
  <2> QED
    BY <2>1, <2>3, SameJob DEF Inv, DownloadIsPrefix, CellRead, Downloading
<1>15. CASE Fail
  BY <1>15 DEF Fail, Exit, drive, command, Inv, Where, Downloading, DownloadIsPrefix,
       CellRead, Feeding
<1>16. CASE ReadFile
  BY <1>16 DEF ReadFile, drive, command, transfer, Inv, Where, Downloading, DownloadIsPrefix,
       CellRead, Feeding
<1>17. CASE Written
  BY <1>17 DEF Written, drive, command, transfer, Inv, Where, Downloading, DownloadIsPrefix,
       CellRead, Feeding
<1>18. CASE Interrupt
  BY <1>18, SameJob DEF Interrupt, drive, command, goroutine, Inv, Where, Downloading,
       DownloadIsPrefix, CellRead, Feeding
<1>19. CASE Kill
  BY <1>19, SameJob DEF Kill, Exit, drive, command, Inv, Where, Downloading, DownloadIsPrefix,
       CellRead, Feeding
<1>20. CASE UNCHANGED vars
  BY <1>20, SameJob DEF vars, drive, command, transfer, goroutine, Inv, Where, Downloading,
       DownloadIsPrefix, CellRead, Feeding
<1> QED
  BY <1>1, <1>2, <1>3, <1>4, <1>5, <1>6, <1>7, <1>8, <1>9, <1>10, <1>11, <1>12, <1>13, <1>14,
       <1>15, <1>16, <1>17, <1>18, <1>19, <1>20 DEF Next, Host, Goroutine, Begins

\* What is mirrored stays so while the goroutine goes on.
LEMMA MirrorsStay ==
  ASSUME TypeOK, NEW n \in Nat, Mirrors(n), UNCHANGED <<memory, job, before>>,
         pos <= pos', pos' \in Nat, \A i \in 1 .. pos : hashed'[i] = hashed[i]
  PROVE  /\ addr' - job'.offset = n => Mirrors(Done)'
         /\ Limit = n => Mirrors(Limit)'
PROOF
<1>1. job.offset \in Nat /\ pos \in Nat /\ MemorySize \in Nat
  BY JobTyped, TransferAssumption DEF TypeOK
<1>2. Asked' = Asked /\ Limit' = Limit
  BY SameJob
<1>3. ASSUME NEW a \in 0 .. MemorySize - 1
      PROVE  IF a \in job'.offset .. job'.offset + n - 1
             THEN IF a - job'.offset < Asked'
                  THEN a - job'.offset < pos' /\ memory'[a] = hashed'[a - job'.offset + 1]
                  ELSE memory'[a] = Filler
             ELSE memory'[a] = before'[a]
  <2>1. IF a \in job.offset .. job.offset + n - 1
        THEN IF a - job.offset < Asked
             THEN a - job.offset < pos /\ memory[a] = hashed[a - job.offset + 1]
             ELSE memory[a] = Filler
        ELSE memory[a] = before[a]
    BY DEF Mirrors
  <2>2. PICK o \in Nat : o = job.offset
    BY <1>1
  <2>3. ASSUME a \in o .. o + n - 1, a - o < pos PROVE a - o + 1 \in 1 .. pos /\ a - o < pos'
    BY <1>1, <2>3
  <2>4. ASSUME a \in o .. o + n - 1, a - o < pos PROVE hashed'[a - o + 1] = hashed[a - o + 1]
    BY <2>3, <2>4
  <2>5. CASE a \in o .. o + n - 1
    <3>1. CASE a - o < Asked
      <4>1. a - o < pos /\ memory[a] = hashed[a - o + 1]
        BY <2>1, <2>2, <2>5, <3>1
      <4> QED
        BY <1>2, <2>2, <2>3, <2>4, <2>5, <3>1, <4>1
    <3>2. CASE ~(a - o < Asked)
      BY <1>2, <2>1, <2>2, <2>5, <3>2
    <3> QED
      BY <3>1, <3>2
  <2>6. CASE ~(a \in o .. o + n - 1)
    BY <2>1, <2>2, <2>6
  <2> QED
    BY <2>5, <2>6
<1>4. ASSUME addr' - job'.offset = n PROVE Mirrors(Done)'
  BY <1>3, <1>4 DEF Mirrors, Done
<1>5. ASSUME Limit = n PROVE Mirrors(Limit)'
  BY <1>2, <1>3, <1>5 DEF Mirrors
<1> QED
  BY <1>4, <1>5

\* An upload that is over has no more to keep, and the other commands have nothing to.
LEMMA NothingToUpload ==
  ASSUME pc' = "idle" \/ job'.cmd # "upload" \/ ~Fits'
  PROVE  Uploading'
  BY DEF Uploading, Settling

\* An upload that has ended its loop well has loaded all that there is.
LEMMA LoopEnds ==
  ASSUME TypeOK, Inv, Fits, job.cmd = "upload",
         \/ pc = "head" /\ left = 0
         \/ pc = "fill" /\ buf = <<>> /\ end = "EOF"
  PROVE  Done = Limit /\ Done \in Nat
PROOF
<1>1. /\ job.size \in Nat /\ job.file.length \in Nat /\ pos \in Nat /\ left \in Nat
      /\ job.offset \in Nat /\ addr \in Nat
  BY JobTyped DEF TypeOK
<1>2. Asked = IF job.size <= job.file.length THEN job.size ELSE job.file.length
  BY AskedFacts
<1>3. addr >= job.offset /\ pos <= job.file.length
  BY DEF Inv, Uploading, Feeding
<1>4. Done \in Nat
  BY <1>1, <1>3 DEF Done
<1>5. CASE pc = "head" /\ left = 0
  <2>1. job.size <= pos /\ Done = PadUp(job.size)
    BY <1>5 DEF Inv, Uploading
  <2>2. Asked = job.size
    BY <1>1, <1>2, <1>3, <2>1
  <2> QED
    BY <1>4, <2>1, <2>2 DEF Limit
<1>6. CASE pc = "fill" /\ buf = <<>> /\ end = "EOF"
  <2>1. left > 0 /\ Stream /\ pos = job.file.length /\ block = <<>>
    BY <1>6 DEF Inv, Uploading, Feeding
  <2>2. Done % Pad = 0
    BY <2>1 DEF Stream
  <2>3. left = job.size - Done /\ Done + Len(buf) + Len(block) = pos
    BY <2>1 DEF Stream
  <2>4. Len(buf) = 0 /\ Len(block) = 0
    BY <1>6, <2>1
  <2>5. Asked = Done
    <3> HIDE DEF Done
    <3> QED
      BY <1>1, <1>2, <1>4, <2>1, <2>3, <2>4
  <2> QED
    BY <1>4, <2>2, <2>5, PadUpFacts DEF Limit
<1> QED
  BY <1>5, <1>6

\* The command stays the same in it.
LEMMA ProceedSameJob ==
  ASSUME Proceed(AfterUpload) \/ Proceed(AfterCic)
  PROVE  UNCHANGED job
  BY DEF Proceed, Exit, command

\* The next part of the command finds all of it in place.
LEMMA ProceedMirrors ==
  ASSUME TypeOK, Inv, Fits, job.cmd = "upload", Proceed(AfterUpload), UNCHANGED memory,
         \/ pc = "head" /\ left = 0
         \/ pc = "fill" /\ buf = <<>> /\ end = "EOF"
  PROVE  Uploading'
PROOF
<1>1. PICK next \in {"boot", "lookup", "done"} : Proceed(next)
  BY DEF AfterUpload, AfterCic
<1>2. CASE next = "done"
  BY <1>1, <1>2 DEF Proceed, Exit, Uploading, Settling
<1>3. CASE next # "done"
  <2>1. pc' = next /\ UNCHANGED <<job, before, pos, hashed, memory>>
    BY <1>1, <1>3 DEF Proceed, command, goroutine
  <2>2. Done = Limit /\ Done \in Nat
    BY LoopEnds
  <2>3. Mirrors(Done)
    BY DEF Inv, Uploading
  <2>4. pos \in Nat
    BY DEF TypeOK
  <2>5. Mirrors(Limit)'
    BY <2>1, <2>2, <2>3, <2>4, MirrorsStay
  <2>6. pc' \in {"boot", "lookup"}
    BY <1>1, <1>3, <2>1
  <2> QED
    BY <2>5, <2>6 DEF Uploading
<1> QED
  BY <1>2, <1>3

\* What concerns the upload does not change.
LEMMA SameUploading ==
  ASSUME Uploading, Fits,
         UNCHANGED <<pc, memory, job, before, pos, hashed, addr, left, buf, block>>
  PROVE  Uploading'
PROOF
<1>1. Asked' = Asked /\ Limit' = Limit
  BY SameJob
<1>2. Mirrors(Limit)' <=> Mirrors(Limit)
  BY <1>1 DEF Mirrors
<1>3. Mirrors(Done)' <=> Mirrors(Done)
  BY <1>1 DEF Mirrors, Done
<1>4. Stream' <=> Stream
  BY DEF Stream, Done
<1> QED
  BY <1>2, <1>3, <1>4 DEF Uploading, Done

\* The settings that follow an upload leave what it has loaded.
LEMMA StillUploaded ==
  ASSUME TypeOK, Inv, Fits, pc \in Settling, pc' \in Settling \cup {"idle"},
         UNCHANGED <<memory, job, before>>,
         pc' # "idle" => pos <= pos' /\ pos' \in Nat /\ \A i \in 1 .. pos : hashed'[i] = hashed[i]
  PROVE  Uploading'
PROOF
<1>1. CASE job.cmd # "upload" \/ pc' = "idle"
  BY <1>1, NothingToUpload
<1>2. CASE job.cmd = "upload" /\ pc' # "idle"
  <2>1. Mirrors(Limit) /\ Limit \in Nat
    BY <1>2, AskedFacts DEF Inv, Uploading, Limit
  <2>2. Mirrors(Limit)'
    BY <1>2, <2>1, MirrorsStay
  <2> QED
    BY <1>2, <2>2 DEF Uploading, Settling
<1> QED
  BY <1>1, <1>2

\* A chunk is filled from the pipe.
LEMMA FillKeepsUploading ==
  ASSUME TypeOK, Inv, Fits, Fill
  PROVE  Uploading'
PROOF
<1>1. /\ pc = "fill" /\ pc' = "fill" /\ job.cmd = "upload"
      /\ UNCHANGED <<memory, job, before, left, addr, pos, hashed>>
  BY DEF Fill, Inv, Where, drive, command
<1>2. left > 0 /\ addr >= job.offset /\ Mirrors(Done) /\ Stream
  BY <1>1 DEF Inv, Uploading, TypeOK
<1>3. Done' = Done /\ left' = left /\ job'.size = job.size
  BY <1>1 DEF Done
<1>4. Mirrors(Done)'
  BY <1>1, <1>2, SameJob DEF Mirrors, Done
<1>5. /\ Taken \in Nat \ {0} /\ Taken <= Len(block)
      /\ Len(buf') = Len(buf) + Taken /\ Len(block') = Len(block) - Taken
      /\ \A i \in 1 .. Len(buf) : buf'[i] = buf[i]
      /\ \A i \in 1 .. Taken : buf'[Len(buf) + i] = block[i]
      /\ \A i \in 1 .. Len(block') : block'[i] = block[Taken + i]
  BY FillFacts
<1>6. /\ Done + Len(buf) + Len(block) = pos /\ left = job.size - Done /\ Done % Pad = 0
      /\ \A i \in 1 .. Len(buf) : buf[i] = hashed[Done + i]
      /\ \A i \in 1 .. Len(block) : block[i] = hashed[Done + Len(buf) + i]
  BY <1>2 DEF Stream
<1>7. PICK d \in Nat, b \in Nat, l \in Nat, t \in Nat :
        d = Done /\ b = Len(buf) /\ l = Len(block) /\ t = Taken
  <2>1. Done \in Nat
    BY <1>2, JobTyped DEF Done, TypeOK
  <2> QED
    BY <1>5, <2>1, LenProperties DEF TypeOK
<1> HIDE DEF Done
<1>8. t <= l /\ Len(buf') = b + t /\ Len(block') = l - t
  BY <1>5, <1>7
<1>9. Done' + Len(buf') + Len(block') = pos'
  <2>1. d + b + l = pos
    BY <1>6, <1>7
  <2>2. Done' = d /\ pos' = pos
    BY <1>1, <1>3, <1>7
  <2>3. d + (b + t) + (l - t) = d + b + l
    BY <1>8
  <2> QED
    BY <1>8, <2>1, <2>2, <2>3
<1>10. ASSUME NEW i \in 1 .. b + t PROVE buf'[i] = hashed[d + i]
  <2>1. CASE i <= b
    <3>1. i \in 1 .. Len(buf)
      BY <1>7, <2>1
    <3> QED
      BY <1>5, <1>6, <1>7, <3>1
  <2>2. CASE ~(i <= b)
    <3>1. PICK k \in 1 .. t : i = b + k
      <4>1. i - b \in 1 .. t /\ i = b + (i - b)
        BY <2>2
      <4> QED
        BY <4>1
    <3>2. buf'[b + k] = block[k] /\ block[k] = hashed[d + b + k]
      <4>1. k \in 1 .. Taken /\ k \in 1 .. Len(block)
        BY <1>7, <1>8, <3>1
      <4> QED
        BY <1>5, <1>6, <1>7, <4>1
    <3>3. d + i = d + b + k
      BY <3>1
    <3> QED
      BY <3>1, <3>2, <3>3
  <2> QED
    BY <2>1, <2>2
<1>11. ASSUME NEW i \in 1 .. l - t PROVE block'[i] = hashed[d + (b + t) + i]
  <2>1. i \in 1 .. Len(block') /\ t + i \in 1 .. Len(block)
    BY <1>7, <1>8
  <2>2. block'[i] = block[t + i] /\ block[t + i] = hashed[d + b + (t + i)]
    BY <1>5, <1>6, <1>7, <2>1
  <2>3. d + b + (t + i) = d + (b + t) + i
    BY <1>8
  <2> QED
    BY <2>2, <2>3
<1>12. Stream'
  BY <1>1, <1>3, <1>6, <1>7, <1>8, <1>9, <1>10, <1>11 DEF Stream
<1> QED
  BY <1>1, <1>2, <1>4, <1>12 DEF Uploading, Settling

\* A chunk is loaded.
LEMMA LoadKeepsUploading ==
  ASSUME TypeOK, Inv, Fits, Load
  PROVE  Uploading'
PROOF
<1>1. CASE pc' = "idle"
  BY <1>1, NothingToUpload
<1>2. CASE pc' # "idle"
  <2>1. /\ memory' = Loaded(Padded, Len(Padded), addr) /\ addr' = addr + Len(Padded)
        /\ left' = IF left > Len(Padded) THEN left - Len(Padded) ELSE 0
        /\ pc' = "head" /\ buf' = <<>>
        /\ UNCHANGED <<job, before, pos, block, hashed>>
    <3>1. /\ memory' \in Stored(Padded, Len(Padded), addr)
          /\ addr' = (addr + Len(Padded)) % Space
          /\ left' = IF left > Len(Padded) THEN left - Len(Padded) ELSE 0
          /\ pc' = "head" /\ buf' = <<>>
          /\ UNCHANGED <<job, before, pos, block, hashed>>
      BY <1>2 DEF Load, Exit, command, goroutine
    <3>2. /\ Len(Padded) \in Nat /\ addr + Len(Padded) <= MemorySize /\ MemorySize < Space
          /\ addr \in Nat /\ MemorySize \in Nat /\ Space \in Nat
      BY ChunkFits, JobTyped, SpaceFacts DEF TypeOK
    <3>3. addr + Len(Padded) \in 0 .. Space - 1
      BY <3>2
    <3>4. (addr + Len(Padded)) % Space = addr + Len(Padded)
      BY <3>3, AddressCut
    <3>5. memory' = Loaded(Padded, Len(Padded), addr)
      BY <3>1, <3>2, StoredInside
    <3> QED
      BY <3>1, <3>4, <3>5
  <2>2. /\ job.cmd = "upload" /\ Done \in Nat /\ left = job.size - Done
        /\ addr = job.offset + Done /\ left > 0 /\ Len(Padded) \in Nat
        /\ Done + Len(buf) <= pos
        /\ left > Len(Padded) => (Done + Len(Padded)) % Pad = 0 /\ Len(Padded) = Len(buf)
        /\ left <= Len(Padded)
             => Done + Len(buf) = job.size /\ Done + Len(Padded) = PadUp(job.size)
    BY ChunkFits
  <2>3. Stream
    BY <2>2 DEF Load, Inv, Uploading
  <2>4. job.offset \in Nat /\ job.size \in Nat /\ left \in Nat /\ pos \in Nat
    BY JobTyped DEF TypeOK
  <2>5. Done' = Done + Len(Padded) /\ addr' >= job'.offset
    <3>1. PICK o \in Nat, d \in Nat, n \in Nat : o = job.offset /\ d = Done /\ n = Len(Padded)
      BY <2>2, <2>4
    <3>2. addr' = (o + d) + n /\ job'.offset = o
      BY <2>1, <2>2, <3>1
    <3>3. addr' - job'.offset = d + n /\ addr' >= job'.offset
      BY <3>2
    <3> QED
      BY <3>1, <3>3 DEF Done
  <2>6. Mirrors(Done)'
    <3>1. Len(Padded) \in 0 .. Len(Padded)
      BY <2>2
    <3>2. \A a \in 0 .. MemorySize - 1 :
            IF a \in job.offset .. job.offset + (Done + Len(Padded)) - 1
            THEN IF a - job.offset < Asked
                 THEN a - job.offset < pos /\ memory'[a] = hashed[a - job.offset + 1]
                 ELSE memory'[a] = Filler
            ELSE memory'[a] = before[a]
      BY <2>1, <3>1, LoadMirrors
    <3>3. Asked' = Asked
      BY <2>1, SameJob
    <3> QED
      BY <2>1, <2>5, <3>2, <3>3 DEF Mirrors
  <2> HIDE DEF Done
  <2>7. CASE left > Len(Padded)
    <3>1. Done' % Pad = 0 /\ Len(Padded) = Len(buf) /\ left' = left - Len(Padded)
      BY <2>1, <2>2, <2>5, <2>7
    <3>2. /\ Done + Len(buf) + Len(block) = pos
          /\ \A i \in 1 .. Len(block) : block[i] = hashed[Done + Len(buf) + i]
      BY <2>3 DEF Stream
    <3>3. PICK d \in Nat, n \in Nat, l \in Nat, s \in Nat :
            d = Done /\ n = Len(Padded) /\ l = Len(block) /\ s = job.size
      BY <2>2, <2>4, LenProperties DEF TypeOK
    <3>4. Done' = d + n /\ Len(buf') = 0 /\ left' = s - d - n
      <4>1. Len(buf') = 0
        BY <2>1
      <4>2. left = s - d /\ left' = left - n
        BY <2>2, <3>1, <3>3
      <4>3. Done' = d + n
        BY <2>5, <3>3
      <4>4. left' = s - d - n
        BY <4>2
      <4> QED
        BY <4>1, <4>3, <4>4
    <3>5. left' = job'.size - Done'
      <4>1. job'.size = s
        BY <2>1, <3>3
      <4> QED
        BY <3>4, <4>1
    <3>6. Done' + Len(buf') + Len(block') = pos'
      BY <2>1, <3>1, <3>2, <3>3, <3>4
    <3>7. \A i \in 1 .. l : d + n + 0 + i = d + n + i
      OBVIOUS
    <3>8. \A i \in 1 .. Len(block') : block'[i] = hashed'[Done' + Len(buf') + i]
      BY <2>1, <3>1, <3>2, <3>3, <3>4, <3>7
    <3>9. Stream'
      BY <3>1, <3>4, <3>5, <3>6, <3>8 DEF Stream
    <3>10. left' > 0
      BY <2>2, <2>4, <2>7, <3>1
    <3> QED
      BY <2>1, <2>5, <2>6, <3>9, <3>10 DEF Uploading, Settling
  <2>8. CASE ~(left > Len(Padded))
    <3>1. left' = 0 /\ left <= Len(Padded)
      BY <2>1, <2>2, <2>4, <2>8
    <3>2. job'.size <= pos' /\ Done' = PadUp(job'.size)
      BY <2>1, <2>2, <2>5, <3>1
    <3>3. ~(left' > 0)
      BY <3>1
    <3> QED
      BY <2>1, <2>5, <2>6, <3>1, <3>2, <3>3 DEF Uploading, Settling
  <2> QED
    BY <2>7, <2>8
<1> QED
  BY <1>1, <1>2

\* The goroutine reads a part of the file.
LEMMA ReadKeepsUploading ==
  ASSUME TypeOK, Inv, Fits, ReadFile
  PROVE  Uploading'
PROOF
<1>1. /\ UNCHANGED <<pc, memory, job, before, addr, left, buf>> /\ producer = "read"
      /\ job.cmd = "upload" /\ pc \notin {"idle", "extended", "open"} /\ block = <<>>
  BY DEF ReadFile, drive, command, transfer, Inv, Feeding
<1>2. CASE UNCHANGED <<pos, block, hashed>>
  BY <1>1, <1>2, SameUploading DEF Inv
<1>3. CASE pos' = LastRead /\ block' = UnitsRead /\ hashed' = hashed \o UnitsRead
  <2>1. pos \in Nat /\ pos <= job.file.length /\ hashed \in Seq(Cells) /\ Len(hashed) = pos
    BY DEF Inv, Feeding, TypeOK
  <2>2. /\ LastRead \in Nat /\ pos <= LastRead /\ UnitsRead \in Seq(Cells)
        /\ Len(UnitsRead) = LastRead - pos
    BY <2>1, ReadFacts
  <2>3. /\ \A i \in 1 .. pos : hashed'[i] = hashed[i]
        /\ \A i \in 1 .. LastRead - pos : hashed'[pos + i] = UnitsRead[i]
    <3>1. /\ \A i \in 1 .. Len(hashed) : (hashed \o UnitsRead)[i] = hashed[i]
          /\ \A i \in 1 .. Len(UnitsRead) : (hashed \o UnitsRead)[Len(hashed) + i] = UnitsRead[i]
      BY <2>1, <2>2, Joined
    <3> QED
      BY <1>3, <2>1, <2>2, <3>1
  <2>4. pos <= pos' /\ pos' \in Nat
    BY <1>3, <2>2
  <2>5. CASE pc \in Settling
    BY <1>1, <2>3, <2>4, <2>5, StillUploaded
  <2>6. CASE pc \notin Settling
    <3>1. pc \in {"head", "fill"} /\ Mirrors(Done) /\ addr >= job.offset
      BY <1>1, <2>6 DEF Inv, Uploading, Where, TypeOK, Settling
    <3>2. Done \in Nat /\ addr' - job'.offset = Done /\ Done' = Done
      BY <1>1, <3>1, JobTyped DEF Done, TypeOK
    <3>3. Mirrors(Done)'
      BY <1>1, <2>3, <2>4, <3>1, <3>2, MirrorsStay
    <3>4. ASSUME left > 0 PROVE Stream'
      <4>1. Stream
        BY <1>1, <3>1, <3>4 DEF Inv, Uploading
      <4>2. PICK d \in Nat, b \in Nat, p \in Nat, q \in Nat :
              d = Done /\ b = Len(buf) /\ p = pos /\ q = LastRead
        BY <2>1, <2>2, <3>2, LenProperties DEF TypeOK
      <4> HIDE DEF Done
      <4>3. d + b = p /\ p <= q
        <5>1. d + b + Len(block) = p
          BY <4>1, <4>2 DEF Stream
        <5>2. Len(block) = 0
          BY <1>1
        <5> QED
          BY <2>2, <4>2, <5>1, <5>2
      <4>4. Len(block') = q - p /\ d + b + (q - p) = q
        <5>1. Len(block') = LastRead - pos
          BY <1>3, <2>2
        <5> QED
          BY <4>2, <4>3, <5>1
      <4>5. ASSUME NEW i \in 1 .. b PROVE buf'[i] = hashed'[d + i]
        <5>1. d + i \in 1 .. p /\ i \in 1 .. Len(buf)
          BY <4>2, <4>3
        <5>2. buf[i] = hashed[d + i]
          BY <4>1, <4>2, <5>1 DEF Stream
        <5> QED
          BY <1>1, <2>3, <4>2, <5>1, <5>2
      <4>6. ASSUME NEW i \in 1 .. q - p PROVE block'[i] = hashed'[d + b + i]
        BY <1>3, <2>3, <4>2, <4>3
      <4>7. Done' % Pad = 0 /\ left' = job'.size - Done'
        BY <1>1, <3>2, <4>1 DEF Stream
      <4>8. Done' + Len(buf') + Len(block') = pos'
        BY <1>1, <1>3, <3>2, <4>2, <4>4
      <4>9. /\ \A i \in 1 .. Len(buf') : buf'[i] = hashed'[Done' + i]
            /\ \A i \in 1 .. Len(block') : block'[i] = hashed'[Done' + Len(buf') + i]
        BY <1>1, <3>2, <4>2, <4>4, <4>5, <4>6
      <4> QED
        BY <4>7, <4>8, <4>9 DEF Stream
    <3>5. pc = "head" /\ left = 0 => job'.size <= pos' /\ Done' = PadUp(job'.size)
      <4>1. pc = "head" /\ left = 0 => job.size <= pos /\ Done = PadUp(job.size)
        BY <1>1 DEF Inv, Uploading
      <4> QED
        BY <1>1, <2>1, <2>4, <3>2, <4>1, JobTyped
    <3>6. /\ pc = "head" => buf = <<>>
          /\ pc = "fill" => left > 0
      BY <1>1 DEF Inv, Uploading
    <3> QED
      BY <1>1, <3>1, <3>3, <3>4, <3>5, <3>6 DEF Uploading, Settling
  <2> QED
    BY <2>5, <2>6
<1> QED
  BY <1>2, <1>3, ReadStep

\* The memory holds a beginning of the file, and what follows it is on its way.
LEMMA KeepsUploading ==
  ASSUME TypeOK, Inv, [Next]_vars
  PROVE  Uploading'
PROOF
<1>0. SUFFICES ASSUME Fits' PROVE Uploading'
  BY NothingToUpload
<1>21. UNCHANGED job => Fits
  BY <1>0, SameJob
<1>1. CASE Begins
  <2>1. /\ Begun(job') /\ job' \in Jobs /\ pc = "idle"
        /\ left' = job'.size /\ addr' = job'.offset /\ buf' = buf /\ UNCHANGED memory
        /\ before' = memory
    BY <1>1, BegunFacts DEF Start, drive
  <2>2. CASE job'.cmd # "upload"
    BY <2>2, NothingToUpload
  <2>3. CASE job'.cmd = "upload"
    <3>1. pc' \in {"extended", "open"} /\ buf' = <<>>
      BY <2>1, <2>3 DEF Begun, Inv, Where
    <3>2. job'.offset \in Nat
      BY <2>1, SpaceFacts DEF Jobs
    <3>3. Done' = 0 /\ addr' >= job'.offset
      BY <2>1, <3>2 DEF Done
    <3>4. ASSUME NEW a PROVE ~(a \in job'.offset .. job'.offset + 0 - 1)
      BY <3>2
    <3>5. Mirrors(Done)'
      BY <2>1, <3>3, <3>4 DEF Mirrors
    <3> QED
      BY <2>1, <3>1, <3>3, <3>5 DEF Uploading, Settling
  <2> QED
    BY <2>2, <2>3
<1>2. CASE SetExtended
  <2>1. CASE pc' = "idle"
    BY <2>1, NothingToUpload
  <2>2. CASE pc' # "idle"
    <3>1. /\ job.cmd = "upload" /\ pc = "extended" /\ pc' = "open"
          /\ UNCHANGED <<memory, job, before, pos, hashed, addr, left, buf>>
      BY <1>2, <2>2 DEF SetExtended, Exit, command, goroutine
    <3>2. Mirrors(Done)' <=> Mirrors(Done)
      BY <3>1, SameJob DEF Mirrors, Done
    <3> QED
      BY <1>21, <3>1, <3>2 DEF Inv, Uploading, Settling
  <2> QED
    BY <2>1, <2>2
<1>3. CASE Open
  <2>1. /\ job.cmd = "upload" /\ pc = "open" /\ pc' = "head"
        /\ UNCHANGED <<memory, job, before, pos, hashed, addr, left, buf, block>>
    BY <1>3 DEF Open, drive, command, transfer, Inv, Where
  <2>2. /\ addr = job.offset /\ left = job.size /\ buf = <<>> /\ Mirrors(Done)
        /\ pos = 0 /\ block = <<>>
    BY <1>21, <2>1 DEF Inv, Uploading, Feeding
  <2>3. Mirrors(Done)' /\ addr' >= job'.offset /\ Done' = 0
    BY <2>1, <2>2, SameJob, JobTyped DEF Mirrors, Done
  <2>4. Stream'
    <3>1. Len(buf') = 0 /\ Len(block') = 0 /\ pos' = 0
      BY <2>1, <2>2
    <3>2. 0 % Pad = 0
      BY TransferAssumption
    <3>3. left' = job'.size - Done'
      <4>1. job'.size \in Nat /\ left' = job'.size
        BY <2>1, <2>2, JobTyped
      <4> QED
        BY <2>3, <4>1
    <3>4. Done' + Len(buf') + Len(block') = pos'
      BY <2>3, <3>1
    <3> QED
      BY <2>3, <3>1, <3>2, <3>3, <3>4 DEF Stream
  <2>5. left = 0 => job.size <= pos /\ 0 = PadUp(job.size)
    <3>1. PadUp(0) = 0
      BY PadUpFacts, TransferAssumption
    <3> QED
      BY <2>2, <3>1
  <2> QED
    BY <2>1, <2>2, <2>3, <2>4, <2>5 DEF Uploading, Settling
<1>4. CASE NextChunk
  <2>1. CASE pc' = "idle"
    BY <2>1, NothingToUpload
  <2>2. CASE left > 0 /\ pc' = "fill" /\ UNCHANGED <<job, before, goroutine, left, addr, buf>>
    <3>1. /\ pc = "head" /\ UNCHANGED <<memory, pos, hashed, block>> /\ job.cmd = "upload"
      BY <1>4, <2>2 DEF NextChunk, drive, goroutine, Inv, Where
    <3>2. (Mirrors(Done)' <=> Mirrors(Done)) /\ (Stream' <=> Stream)
      BY <2>2, <3>1, SameJob DEF Mirrors, Stream, Done
    <3> QED
      BY <1>21, <2>2, <3>1, <3>2 DEF Inv, Uploading, Settling
  <2>3. CASE left = 0 /\ Proceed(AfterUpload)
    BY <1>4, <1>21, <2>3, ProceedMirrors, ProceedSameJob DEF NextChunk, drive, Inv, Where
  <2> QED
    BY <1>4, <2>1, <2>2, <2>3 DEF NextChunk, Exit, command
<1>5. CASE Fill
  BY <1>5, <1>21, FillKeepsUploading DEF Fill, command
<1>6. CASE FillEnds
  <2>1. CASE pc' = "idle"
    BY <2>1, NothingToUpload
  <2>2. CASE pc' # "idle"
    BY <1>6, <1>21, <2>2, ProceedMirrors, ProceedSameJob DEF FillEnds, Exit, drive, Inv, Where
  <2> QED
    BY <2>1, <2>2
<1>7. CASE Load
  BY <1>7, <1>21, LoadKeepsUploading DEF Load, Exit, command
<1>8. CASE ReadBoot
  <2>1. /\ pc \in Settling /\ pc' \in Settling \cup {"idle"} /\ UNCHANGED <<memory, job, before>>
        /\ pc' # "idle" => UNCHANGED <<pos, hashed>>
    BY <1>8 DEF ReadBoot, Exit, drive, command, goroutine, Settling
  <2> QED
    BY <1>21, <2>1, StillUploaded DEF TypeOK
<1>9. CASE SetCic
  <2>1. /\ pc \in Settling /\ pc' \in Settling \cup {"idle"} /\ UNCHANGED <<memory, job, before>>
        /\ pc' # "idle" => UNCHANGED <<pos, hashed>>
    BY <1>9 DEF SetCic, Exit, Proceed, AfterCic, command, goroutine, Settling
  <2> QED
    BY <1>21, <2>1, StillUploaded DEF TypeOK
<1>10. CASE LookUp
  <2>1. /\ pc \in Settling /\ pc' \in Settling \cup {"idle"} /\ UNCHANGED <<memory, job, before>>
        /\ pc' # "idle" => UNCHANGED <<pos, hashed>>
    BY <1>10 DEF LookUp, drive, command, goroutine, Settling
  <2> QED
    BY <1>21, <2>1, StillUploaded DEF TypeOK
<1>11. CASE ReadHeader
  <2>1. /\ pc \in Settling /\ pc' \in Settling \cup {"idle"} /\ UNCHANGED <<memory, job, before>>
        /\ pc' # "idle" => UNCHANGED <<pos, hashed>>
    BY <1>11 DEF ReadHeader, drive, command, goroutine, Settling
  <2> QED
    BY <1>21, <2>1, StillUploaded DEF TypeOK
<1>12. CASE SetSave
  BY <1>12, NothingToUpload DEF SetSave, Exit
<1>13. CASE Dump
  <2>1. job' = job /\ job.cmd = "download"
    BY <1>13 DEF Dump, Exit, command, Inv, Where
  <2> QED
    BY <2>1, NothingToUpload
<1>14. CASE DumpEnds
  BY <1>14, NothingToUpload DEF DumpEnds, Exit
<1>15. CASE Fail
  BY <1>15, NothingToUpload DEF Fail, Exit
<1>16. CASE ReadFile
  BY <1>16, <1>21, ReadKeepsUploading DEF ReadFile, command
<1>17. CASE Written
  BY <1>17, <1>21, SameUploading DEF Written, drive, command, transfer, Inv
<1>18. CASE Interrupt
  BY <1>18, <1>21, SameUploading DEF Interrupt, drive, command, goroutine, Inv
<1>19. CASE Kill
  BY <1>19, NothingToUpload DEF Kill, Exit
<1>20. CASE UNCHANGED vars
  BY <1>20, <1>21, SameUploading DEF vars, drive, command, transfer, goroutine, Inv
<1> QED
  BY <1>1, <1>2, <1>3, <1>4, <1>5, <1>6, <1>7, <1>8, <1>9, <1>10, <1>11, <1>12, <1>13, <1>14,
       <1>15, <1>16, <1>17, <1>18, <1>19, <1>20 DEF Next, Host, Goroutine, Begins

\* The first units of the memory are those of a file.
LEMMA HeaderUnits ==
  ASSUME NEW n \in Nat, NEW file
  PROVE  Header(n) = Native(file, n)
           <=> \A i \in 1 .. n :
                 memory[i - 1] = [file |-> file, at |-> i - 1, swap |-> file.swapped]
PROOF
<1>1. n - 0 = n /\ \A i \in 1 .. n : 0 + i - 1 = i - 1
  OBVIOUS
<1>2. Native(file, n) = [i \in 1 .. n |-> [file |-> file, at |-> i - 1, swap |-> file.swapped]]
  BY <1>1 DEF Native, Content
<1> QED
  BY <1>2 DEF Header

\* The units of a ROM.
LEMMA NativeFacts ==
  ASSUME NEW file \in Files \cup {Nothing}, NEW n \in Nat
  PROVE  /\ Native(file, n) \in Seq(Cells) /\ Len(Native(file, n)) = n
         /\ \A i \in 1 .. n :
              Native(file, n)[i] = [file |-> file, at |-> i - 1, swap |-> file.swapped]
PROOF
<1>1. PICK swap \in BOOLEAN : swap = file.swapped
  BY FileTyped
<1>2. n - 0 = n /\ 0 <= n /\ \A i \in 1 .. n : 0 + i - 1 = i - 1
  OBVIOUS
<1>3. /\ Content(file, 0, n, swap) \in Seq(Cells) /\ Len(Content(file, 0, n, swap)) = n - 0
      /\ \A i \in 1 .. n - 0 :
           Content(file, 0, n, swap)[i] = [file |-> file, at |-> 0 + i - 1, swap |-> swap]
  BY <1>2, ContentFacts
<1>4. Native(file, n) = Content(file, 0, n, swap)
  BY <1>1 DEF Native
<1> QED
  BY <1>1, <1>2, <1>3, <1>4

\* At the look-up of a whole ROM all of it was hashed.
LEMMA AllHashed ==
  ASSUME TypeOK, Inv, WholeRom, pc = "lookup"
  PROVE  hashed = Native(job.file, job.file.length) /\ job.file \in Files
PROOF
<1>1. /\ job.cmd = "upload" /\ job.offset = 0 /\ job.size = job.file.length /\ job.size > 0
      /\ Header(job.size) = Native(job.file, job.size)
  BY DEF WholeRom
<1>2. PICK l \in Nat : l = job.size /\ l = job.file.length
  BY <1>1, JobTyped
<1>3. job.file \in Files /\ job.file.swapped \in BOOLEAN
  <2>1. job.file # Nothing
    BY <1>1, <1>2 DEF Nothing
  <2> QED
    BY <2>1, JobTyped, FileTyped
<1>4. Mirrors(Limit) /\ Asked = l /\ Limit \in Nat /\ l <= Limit /\ Limit <= MemorySize
  <2>1. Asked = l /\ Limit \in Nat /\ l <= Limit /\ Limit = PadUp(job.size)
    BY <1>1, <1>2, AskedFacts DEF Limit
  <2>2. Fits /\ 0 + Limit <= MemorySize
    BY <1>1 DEF WholeRom, Fits, Extent, Limit
  <2> QED
    BY <1>1, <2>1, <2>2, SpaceFacts DEF Inv, Uploading, Settling
<1>5. MemorySize \in Nat /\ pos \in Nat /\ pos <= l /\ hashed \in Seq(Cells) /\ Len(hashed) = pos
  BY <1>2, TransferAssumption DEF Inv, Feeding, TypeOK
<1>6. ASSUME NEW i \in 1 .. l
      PROVE  i - 1 < pos /\ hashed[i] = [file |-> job.file, at |-> i - 1, swap |-> job.file.swapped]
  <2>1. i - 1 \in 0 .. MemorySize - 1 /\ i - 1 \in 0 .. 0 + Limit - 1 /\ i - 1 < l
        /\ (i - 1) - 0 + 1 = i /\ (i - 1) - 0 = i - 1
    BY <1>4, <1>5
  <2>2. i - 1 < pos /\ memory[i - 1] = hashed[i]
    BY <1>1, <1>4, <2>1 DEF Mirrors
  <2>3. memory[i - 1] = [file |-> job.file, at |-> i - 1, swap |-> job.file.swapped]
    BY <1>1, <1>2, HeaderUnits
  <2> QED
    BY <2>2, <2>3
<1>7. Len(hashed) = l
  <2>1. l \in 1 .. l
    BY <1>1, <1>2
  <2>2. l - 1 < pos
    BY <1>6, <2>1
  <2> QED
    BY <1>5, <2>2
<1>8. PICK native \in Seq(Cells) : native = Native(job.file, l)
  BY <1>2, <1>3, NativeFacts
<1>9. Len(native) = l
      /\ \A i \in 1 .. l : native[i] = [file |-> job.file, at |-> i - 1, swap |-> job.file.swapped]
  BY <1>2, <1>3, <1>8, NativeFacts
<1>10. hashed = native
  BY <1>5, <1>6, <1>7, <1>9, SeqEqual
<1> QED
  BY <1>2, <1>3, <1>8, <1>10

\* A file with the hash of another has its units.
LEMMA SameHash ==
  ASSUME NEW file \in Files, NEW other \in Files, other.length > 0,
         Native(file, file.length) = Native(other, other.length)
  PROVE  file = other
PROOF
<1>1. PICK m \in Nat, n \in Nat : m = file.length /\ n = other.length
  BY FileTyped
<1>2. Len(Native(file, m)) = m /\ Len(Native(other, n)) = n
  BY NativeFacts
<1>3. m = n /\ 1 \in 1 .. n
  BY <1>1, <1>2
<1>4. /\ Native(file, n)[1] = [file |-> file, at |-> 1 - 1, swap |-> file.swapped]
      /\ Native(other, n)[1] = [file |-> other, at |-> 1 - 1, swap |-> other.swapped]
  BY <1>3, NativeFacts
<1>5. [file |-> file, at |-> 1 - 1, swap |-> file.swapped]
        = [file |-> other, at |-> 1 - 1, swap |-> other.swapped]
  BY <1>1, <1>3, <1>4
<1> QED
  BY <1>5

\* The database knows the ROM, or has nothing for it.
LEMMA LookUpFits ==
  ASSUME TypeOK, Inv, LookUp, WholeRom
  PROVE  /\ pc' = "header" => job.file.save # "db"
         /\ pc' = "save" => found' = RightSave(job.file)
PROOF
<1>1. hashed = Native(job.file, job.file.length) /\ job.file \in Files
  BY AllHashed DEF LookUp
<1>2. job.file.length > 0
  BY DEF WholeRom
<1>3. CASE pc' = "header"
  <2>1. \A file \in Files : ~(file.save = "db" /\ hashed = Native(file, file.length))
    BY <1>3 DEF LookUp
  <2> QED
    BY <1>1, <1>3, <2>1
<1>4. CASE pc' = "save"
  <2>1. PICK file \in Files :
          file.save = "db" /\ hashed = Native(file, file.length) /\ found' = file
    BY <1>4 DEF LookUp
  <2>2. file = job.file
    BY <1>1, <1>2, <2>1, SameHash
  <2> QED
    BY <1>4, <2>1, <2>2 DEF RightSave
<1> QED
  BY <1>3, <1>4

\* The header of a ROM that the database does not have tells its save type.
LEMMA HeaderFits ==
  ASSUME TypeOK, Inv, ReadHeader, WholeRom, ~misread'
  PROVE  found' = RightSave(job.file)
PROOF
<1>1. /\ job.size = job.file.length /\ job.size > 0
      /\ Header(job.size) = Native(job.file, job.size)
  BY DEF WholeRom
<1>2. job.file \in Files \cup {Nothing} /\ job.size \in Nat /\ Pad \in Nat \ {0}
  BY JobTyped, TransferAssumption
<1>3. \A i \in 1 .. job.size :
        memory[i - 1] = [file |-> job.file, at |-> i - 1, swap |-> job.file.swapped]
  BY <1>1, <1>2, HeaderUnits
<1>4. found = Nothing /\ job.file.save # "db"
  BY DEF ReadHeader, Inv, Settings
<1>5. CASE \E file \in Files :
             file.save = "ed64" /\ Header(Pad) = Native(file, Pad) /\ found' = file
  <2>1. PICK file \in Files : file.save = "ed64" /\ Header(Pad) = Native(file, Pad) /\ found' = file
    BY <1>5
  <2>2. \A i \in 1 .. Pad :
          memory[i - 1] = [file |-> file, at |-> i - 1, swap |-> file.swapped]
    BY <1>2, <2>1, HeaderUnits
  <2>3. 1 \in 1 .. job.size /\ 1 \in 1 .. Pad
    BY <1>1, <1>2
  <2>4. /\ memory[1 - 1] = [file |-> job.file, at |-> 1 - 1, swap |-> job.file.swapped]
        /\ memory[1 - 1] = [file |-> file, at |-> 1 - 1, swap |-> file.swapped]
    BY <1>3, <2>2, <2>3
  <2>5. job.file = file
    BY <2>4
  <2> QED
    BY <2>1, <2>5 DEF RightSave
<1>6. CASE /\ \A file \in Files : ~(file.save = "ed64" /\ Header(Pad) = Native(file, Pad))
           /\ found' = found
  <2>1. job.file # Nothing
    BY <1>1, <1>2 DEF Nothing
  <2>2. job.file \in Files /\ job.file.save \in {"db", "ed64", "none"}
    BY <1>2, <2>1, FileTyped
  <2>3. job.file.save # "ed64"
    <3>1. SUFFICES ASSUME job.file.save = "ed64" PROVE FALSE
      OBVIOUS
    <3>2. job.file.length >= Pad
      BY <2>2, <3>1, FileTyped
    <3>3. \A i \in 1 .. Pad : i \in 1 .. job.size
      BY <1>1, <1>2, <3>2
    <3>4. Header(Pad) = Native(job.file, Pad)
      BY <1>2, <1>3, <3>3, HeaderUnits
    <3> QED
      BY <1>6, <2>2, <3>1, <3>4
  <2> QED
    BY <1>4, <1>6, <2>2, <2>3 DEF RightSave
<1> QED
  BY <1>5, <1>6 DEF ReadHeader

\* What does not concern the settings.
LEMMA SameSettings ==
  ASSUME Settings, UNCHANGED <<pc, memory, job, cic, found, misread>>
  PROVE  Settings'
PROOF
<1>1. (WholeRom' <=> WholeRom) /\ (Boots(cic)' <=> Boots(cic)) /\ (Boots(found)' <=> Boots(found))
  BY SameJob DEF WholeRom, Boots, Header, Native, Content
<1>2. RightSave(job.file)' = RightSave(job.file)
  BY DEF RightSave
<1> QED
  BY <1>1, <1>2 DEF Settings

\* Nothing is to be set at the other places.
LEMMA NothingToSet ==
  ASSUME pc' \notin {"cic", "lookup", "header", "save"}
  PROVE  Settings'
  BY DEF Settings

\* The settings are those of the ROM in the memory.
LEMMA KeepsSettings ==
  ASSUME TypeOK, Inv, [Next]_vars
  PROVE  Settings'
PROOF
<1>1. CASE Begins
  <2>1. Begun(job')
    BY <1>1, BegunFacts
  <2>2. pc' \in {"cic", "save"} => job'.cmd # "upload" /\ job'.auto = {}
    BY <2>1 DEF Begun
  <2>3. pc' \notin {"lookup", "header"}
    BY <2>1 DEF Begun
  <2> QED
    BY <2>2, <2>3 DEF Settings, WholeRom
<1>2. CASE SetExtended
  BY <1>2, NothingToSet DEF SetExtended, Exit, command, goroutine
<1>3. CASE Open
  BY <1>3, NothingToSet DEF Open, drive, command, transfer
<1>4. CASE NextChunk
  <2>1. CASE pc' \in {"idle", "fill", "boot"}
    BY <2>1, NothingToSet
  <2>2. CASE pc' = "lookup" /\ "cic" \notin job'.auto
    BY <2>2 DEF Settings
  <2> QED
    BY <1>4, <2>1, <2>2 DEF NextChunk, Exit, Proceed, AfterUpload, AfterCic, drive,
       command, goroutine
<1>5. CASE Fill
  BY <1>5, NothingToSet DEF Fill, drive, command
<1>6. CASE FillEnds
  <2>1. CASE pc' \in {"idle", "fill", "boot"}
    BY <2>1, NothingToSet
  <2>2. CASE pc' = "lookup" /\ "cic" \notin job'.auto
    BY <2>2 DEF Settings
  <2> QED
    BY <1>6, <2>1, <2>2 DEF FillEnds, Exit, Proceed, AfterUpload, AfterCic, drive,
       command, goroutine
<1>7. CASE Load
  BY <1>7, NothingToSet DEF Load, Exit, command, goroutine
<1>8. CASE ReadBoot
  <2>1. CASE pc' = "idle"
    BY <2>1, NothingToSet
  <2>2. CASE pc' = "cic"
    <3>1. Boots(found') /\ UNCHANGED memory
      BY <1>8, <2>2 DEF ReadBoot, Exit, Boots, drive
    <3>2. Boots(found)'
      BY <3>1 DEF Boots, Header, Native, Content
    <3> QED
      BY <2>2, <3>2 DEF Settings
  <2> QED
    BY <1>8, <2>1, <2>2 DEF ReadBoot, Exit
<1>9. CASE SetCic
  <2>1. CASE pc' \notin {"cic", "lookup", "header", "save"}
    BY <2>1, NothingToSet
  <2>2. CASE pc' \in {"cic", "lookup", "header", "save"}
    <3>1. pc' = "lookup" /\ UNCHANGED <<memory, job>> /\ pc = "cic" /\ (HasCic => cic' = found)
      BY <1>9, <2>2 DEF SetCic, Exit, Proceed, AfterCic, command
    <3>2. "cic" \in job.auto => Boots(found)
      BY <3>1 DEF Inv, Settings
    <3>3. ASSUME "cic" \in job'.auto, HasCic PROVE Boots(cic)'
      <4>1. Boots(found) /\ cic' = found
        BY <3>1, <3>2, <3>3
      <4> QED
        BY <3>1, <4>1 DEF Boots, Header, Native, Content
    <3> QED
      BY <3>1, <3>3 DEF Settings
  <2> QED
    BY <2>1, <2>2
<1>10. CASE LookUp
  <2>1. /\ pc = "lookup" /\ pc' \in {"header", "save"} /\ UNCHANGED <<memory, job, cic>>
        /\ pc' = "header" => found' = Nothing
    BY <1>10 DEF LookUp, drive, command
  <2>2. /\ (WholeRom' <=> WholeRom) /\ (Boots(cic)' <=> Boots(cic))
        /\ RightSave(job.file)' = RightSave(job.file)
    BY <2>1, SameJob DEF WholeRom, Boots, Header, Native, Content, RightSave
  <2>3. "cic" \in job.auto /\ HasCic => Boots(cic)
    BY <2>1 DEF Inv, Settings
  <2> QED
    BY <1>10, <2>1, <2>2, <2>3, LookUpFits DEF Settings
<1>11. CASE ReadHeader
  <2>1. /\ pc = "header" /\ pc' \in {"save"} /\ UNCHANGED <<memory, job, cic>>
        /\ pc' = "header" => found' = Nothing
    BY <1>11 DEF ReadHeader, drive, command
  <2>2. /\ (WholeRom' <=> WholeRom) /\ (Boots(cic)' <=> Boots(cic))
        /\ RightSave(job.file)' = RightSave(job.file)
    BY <2>1, SameJob DEF WholeRom, Boots, Header, Native, Content, RightSave
  <2>3. "cic" \in job.auto /\ HasCic => Boots(cic)
    BY <2>1 DEF Inv, Settings
  <2> QED
    BY <1>11, <2>1, <2>2, <2>3, HeaderFits DEF Settings
<1>12. CASE SetSave
  BY <1>12, NothingToSet DEF SetSave, Exit, command
<1>13. CASE Dump
  BY <1>13, NothingToSet DEF Dump, Exit, drive, command, goroutine
<1>14. CASE DumpEnds
  BY <1>14, NothingToSet DEF DumpEnds, Exit, drive, command
<1>15. CASE Fail
  BY <1>15, NothingToSet DEF Fail, Exit, drive, command
<1>16. CASE ReadFile
  BY <1>16, SameSettings DEF ReadFile, drive, command, transfer, Inv
<1>17. CASE Written
  BY <1>17, SameSettings DEF Written, drive, command, transfer, Inv
<1>18. CASE Interrupt
  BY <1>18, SameSettings DEF Interrupt, drive, command, goroutine, Inv
<1>19. CASE Kill
  BY <1>19, NothingToSet DEF Kill, Exit, drive, command
<1>20. CASE UNCHANGED vars
  BY <1>20, SameSettings DEF vars, drive, command, transfer, goroutine, Inv
<1> QED
  BY <1>1, <1>2, <1>3, <1>4, <1>5, <1>6, <1>7, <1>8, <1>9, <1>10, <1>11, <1>12, <1>13, <1>14,
       <1>15, <1>16, <1>17, <1>18, <1>19, <1>20 DEF Next, Host, Goroutine, Begins

\* What mirrors the units of the file is the file, in its place.
LEMMA MirrorsAreInPlace ==
  ASSUME TypeOK, Feeding, NEW n, NEW a \in 0 .. MemorySize - 1, NEW cell,
         IF a \in job.offset .. job.offset + n - 1
         THEN IF a - job.offset < Asked
              THEN a - job.offset < pos /\ cell = hashed[a - job.offset + 1]
              ELSE cell = Filler
         ELSE cell = before[a]
  PROVE  IF a \in job.offset .. job.offset + n - 1
         THEN IF a - job.offset < Asked
              THEN cell.file = job.file /\ cell.at = a - job.offset
              ELSE cell = Filler
         ELSE cell = before[a]
PROOF
<1>1. SUFFICES ASSUME a \in job.offset .. job.offset + n - 1, a - job.offset < Asked
               PROVE  cell.file = job.file /\ cell.at = a - job.offset
  OBVIOUS
<1>2. PICK o \in Nat, p \in Nat : o = job.offset /\ p = pos
  BY JobTyped DEF TypeOK
<1>3. o <= a /\ a - o < p /\ cell = hashed[a - o + 1]
  BY <1>1, <1>2, TransferAssumption
<1>4. a \in Nat
  BY TransferAssumption
<1>5. PICK i \in 1 .. p : i = a - o + 1
  BY <1>3, <1>4
<1>6. hashed[i].file = job.file /\ hashed[i].at = i - 1
  BY <1>2 DEF Feeding
<1>7. i - 1 = a - o
  BY <1>5
<1> QED
  BY <1>2, <1>3, <1>5, <1>6, <1>7

\* So it is with the memory.
LEMMA MirroredInPlace ==
  ASSUME TypeOK, Feeding, NEW n, Mirrors(n)
  PROVE  \A a \in 0 .. MemorySize - 1 : InPlace(a, n)
PROOF
<1> TAKE a \in 0 .. MemorySize - 1
<1>1. IF a \in job.offset .. job.offset + n - 1
      THEN IF a - job.offset < Asked
           THEN memory[a].file = job.file /\ memory[a].at = a - job.offset
           ELSE memory[a] = Filler
      ELSE memory[a] = before[a]
  BY MirrorsAreInPlace DEF Mirrors
<1> QED
  BY <1>1 DEF InPlace

\* An upload that goes on has loaded no more than it was asked to.
LEMMA MirrorsNow ==
  ASSUME TypeOK, Inv, Fits, pc # "idle", job.cmd = "upload"
  PROVE  \E n \in 0 .. Limit : Mirrors(n)
PROOF
<1>1. Limit \in Nat /\ Asked \in Nat /\ Asked <= Limit
      /\ Asked = IF job.size <= job.file.length THEN job.size ELSE job.file.length
  BY AskedFacts DEF Limit
<1>2. CASE pc \in Settling
  BY <1>1, <1>2 DEF Inv, Uploading
<1>3. CASE pc \in {"extended", "open", "head", "fill"}
  <2>1. Mirrors(Done) /\ addr >= job.offset
    BY <1>3 DEF Inv, Uploading
  <2>2. /\ Done \in Nat /\ job.size \in Nat /\ job.file.length \in Nat /\ pos \in Nat
        /\ left \in Nat /\ pos <= job.file.length
    BY <2>1, JobTyped DEF Done, TypeOK, Inv, Feeding
  <2>3. CASE pc \in {"extended", "open"}
    <3>1. addr = job.offset
      BY <2>3 DEF Inv, Uploading
    <3>2. Done = 0
      BY <2>2, <3>1, JobTyped DEF Done
    <3> QED
      BY <1>1, <2>1, <3>2
  <2>4. CASE pc = "head" /\ left = 0
    <3>1. Done = Limit
      BY <2>4, LoopEnds
    <3> QED
      BY <1>1, <2>1, <3>1
  <2>5. CASE pc \in {"head", "fill"} /\ left > 0
    <3>1. Stream
      BY <2>5 DEF Inv, Uploading
    <3>2. left = job.size - Done /\ Done + Len(buf) + Len(block) = pos
      BY <3>1 DEF Stream
    <3>3. PICK b \in Nat, q \in Nat : b = Len(buf) /\ q = Len(block)
      BY LenProperties DEF TypeOK
    <3>4. Done <= Asked
      <4> HIDE DEF Done
      <4>1. Done <= job.size /\ Done + b + q <= job.file.length
        BY <2>2, <2>5, <3>2, <3>3
      <4> QED
        BY <1>1, <2>2, <3>3, <4>1
    <3>5. Done \in 0 .. Limit
      <4> HIDE DEF Done
      <4> QED
        BY <1>1, <2>2, <3>4
    <3> QED
      BY <2>1, <3>5
  <2> QED
    BY <1>3, <2>2, <2>3, <2>4, <2>5 DEF Inv, Uploading
<1> QED
  BY <1>2, <1>3 DEF Inv, Where, TypeOK, Settling

\* A command that goes on has uploaded a beginning, and before the settings all of it.
LEMMA UploadNow ==
  ASSUME TypeOK, Inv, pc # "idle"
  PROVE  UploadIsPrefix /\ UploadComplete
PROOF
<1>1. Feeding /\ result = "none" /\ Limit \in Nat
  BY AskedFacts DEF Inv, Where, Limit
<1>2. CASE job.cmd # "upload"
  <2>1. memory = before /\ job.file = Nothing
    BY <1>2 DEF Inv, Where
  <2>2. ASSUME NEW a PROVE ~(a \in job.offset .. job.offset + 0 - 1)
    BY JobTyped
  <2>3. \A a \in 0 .. MemorySize - 1 : InPlace(a, 0)
    BY <2>1, <2>2 DEF InPlace
  <2>4. 0 \in 0 .. Limit
    BY <1>1
  <2> QED
    BY <1>2, <2>3, <2>4 DEF UploadIsPrefix, UploadComplete, Limit
<1>3. CASE job.cmd = "upload"
  <2>1. UploadIsPrefix
    BY <1>1, <1>3, MirrorsNow, MirroredInPlace DEF UploadIsPrefix, Limit
  <2>2. ASSUME pc \in Settling, Fits PROVE \A a \in 0 .. MemorySize - 1 : InPlace(a, Limit)
    BY <1>1, <1>3, <2>2, MirroredInPlace DEF Inv, Uploading
  <2> QED
    BY <1>1, <2>1, <2>2 DEF UploadComplete, Limit, Settling
<1> QED
  BY <1>2, <1>3

\* A load that fails has still written a beginning.
LEMMA LoadIsPrefix ==
  ASSUME TypeOK, Inv, Load
  PROVE  UploadIsPrefix'
PROOF
<1>1. UNCHANGED <<job, before>> /\ Asked' = Asked /\ Limit' = Limit /\ (Fits' <=> Fits)
  BY SameJob DEF Load, Exit, command
<1>2. SUFFICES ASSUME Fits PROVE UploadIsPrefix'
  BY <1>1 DEF UploadIsPrefix
<1>3. PICK n \in 0 .. Len(Padded) : memory' = Loaded(Padded, n, addr)
  <2>1. PICK n \in 0 .. Len(Padded) : memory' \in Stored(Padded, n, addr)
    BY <1>2, ChunkFits DEF Load
  <2>2. /\ Len(Padded) \in Nat /\ addr + Len(Padded) <= MemorySize
        /\ addr \in Nat /\ MemorySize \in Nat
    BY <1>2, ChunkFits, SpaceFacts DEF TypeOK
  <2>3. addr + n <= MemorySize
    BY <2>2
  <2> QED
    BY <2>1, <2>3, StoredInside
<1>4. Done \in Nat /\ Len(Padded) \in Nat /\ Done + Len(Padded) <= Limit /\ Limit \in Nat
  BY <1>2, ChunkFits, AskedFacts DEF Limit
<1>5. Done + n \in 0 .. Limit
  <2> HIDE DEF Done
  <2> QED
    BY <1>4
<1>6. \A a \in 0 .. MemorySize - 1 :
        IF a \in job.offset .. job.offset + (Done + n) - 1
        THEN IF a - job.offset < Asked
             THEN a - job.offset < pos /\ memory'[a] = hashed[a - job.offset + 1]
             ELSE memory'[a] = Filler
        ELSE memory'[a] = before[a]
  BY <1>3, <1>2, LoadMirrors
<1>7. PICK k \in 0 .. Limit : k = Done + n
  BY <1>5
<1> HIDE DEF Done
<1>8. ASSUME NEW a \in 0 .. MemorySize - 1
      PROVE  IF a \in job.offset .. job.offset + k - 1
             THEN IF a - job.offset < Asked
                  THEN memory'[a].file = job.file /\ memory'[a].at = a - job.offset
                  ELSE memory'[a] = Filler
             ELSE memory'[a] = before[a]
  <2>1. PICK cell : cell = memory'[a]
    OBVIOUS
  <2>2. IF a \in job.offset .. job.offset + k - 1
        THEN IF a - job.offset < Asked
             THEN a - job.offset < pos /\ cell = hashed[a - job.offset + 1]
             ELSE cell = Filler
        ELSE cell = before[a]
    BY <1>6, <1>7, <2>1
  <2>3. IF a \in job.offset .. job.offset + k - 1
        THEN IF a - job.offset < Asked
             THEN cell.file = job.file /\ cell.at = a - job.offset
             ELSE cell = Filler
        ELSE cell = before[a]
    BY <2>2, MirrorsAreInPlace DEF Inv
  <2> QED
    BY <2>1, <2>3
<1>9. \A a \in 0 .. MemorySize - 1 : InPlace(a, k)'
  BY <1>1, <1>8 DEF InPlace
<1> QED
  BY <1>1, <1>9 DEF UploadIsPrefix, Limit

\* How a command may end, and what it has done then if it ends well.
LEMMA Ends ==
  ASSUME TypeOK, Inv, [Next]_vars, pc # "idle", pc' = "idle"
  PROVE  /\ UNCHANGED <<job, before, misread>>
         /\ memory' = memory \/ (Load /\ result' # "ok")
         /\ result' = "ok"
              => \/ /\ "cic" \notin job.auto /\ "save" \notin job.auto
                    /\ job.cmd = "upload" /\ Fits => Mirrors(Limit)
                 \/ /\ pc = "cic" /\ "save" \notin job.auto
                    /\ cic' = IF HasCic THEN found ELSE cic
                 \/ pc = "save" /\ save' = found /\ cic' = cic
PROOF
<1>1. CASE Begins
  BY <1>1, BegunFacts DEF Begun
<1>2. CASE SetExtended
  <2>1. UNCHANGED <<job, before, misread, memory>> /\ (result' = "ok" => job.cmd = "extended")
    BY <1>2 DEF SetExtended, Exit, command
  <2>2. job.cmd = "extended" => "cic" \notin job.auto /\ "save" \notin job.auto
    BY DEF Inv, Where
  <2> QED
    BY <2>1, <2>2
<1>3. CASE Open
  BY <1>3 DEF Open
<1>4. CASE NextChunk
  <2>1. UNCHANGED <<job, before, misread, memory>> /\ job.cmd = "upload"
    BY <1>4 DEF NextChunk, Exit, Proceed, AfterUpload, AfterCic, drive,
       command, goroutine, Inv, Where
  <2>2. ASSUME result' = "ok"
        PROVE  /\ "cic" \notin job.auto /\ "save" \notin job.auto
               /\ pc = "head" /\ left = 0
    BY <1>4, <2>2 DEF NextChunk, Exit, Proceed, AfterUpload, AfterCic, drive,
       command, goroutine
  <2>3. result' = "ok" /\ Fits => Mirrors(Limit)
    BY <2>1, <2>2, LoopEnds DEF Inv, Uploading
  <2> QED
    BY <2>1, <2>2, <2>3
<1>5. CASE Fill
  BY <1>5 DEF Fill
<1>6. CASE FillEnds
  <2>1. UNCHANGED <<job, before, misread, memory>> /\ job.cmd = "upload"
    BY <1>6 DEF FillEnds, Exit, Proceed, AfterUpload, AfterCic, drive,
       command, goroutine, Inv, Where
  <2>2. ASSUME result' = "ok"
        PROVE  /\ "cic" \notin job.auto /\ "save" \notin job.auto
               /\ pc = "fill" /\ buf = <<>> /\ end = "EOF"
    BY <1>6, <2>2 DEF FillEnds, Exit, Proceed, AfterUpload, AfterCic, drive,
       command, goroutine
  <2>3. result' = "ok" /\ Fits => Mirrors(Limit)
    BY <2>1, <2>2, LoopEnds DEF Inv, Uploading
  <2> QED
    BY <2>1, <2>2, <2>3
<1>7. CASE Load
  BY <1>7 DEF Load, Exit, command
<1>8. CASE ReadBoot
  BY <1>8 DEF ReadBoot, Exit, drive, command
<1>9. CASE SetCic
  BY <1>9 DEF SetCic, Exit, Proceed, AfterCic, command
<1>10. CASE LookUp
  BY <1>10 DEF LookUp
<1>11. CASE ReadHeader
  BY <1>11 DEF ReadHeader
<1>12. CASE SetSave
  BY <1>12 DEF SetSave, Exit, command
<1>13. CASE Dump
  BY <1>13 DEF Dump, Exit, drive, command
<1>14. CASE DumpEnds
  <2>1. UNCHANGED <<job, before, misread, memory>>
    BY <1>14 DEF DumpEnds, Exit, drive, command
  <2>2. job.cmd = "download" /\ "cic" \notin job.auto /\ "save" \notin job.auto
    BY <1>14 DEF DumpEnds, Inv, Where
  <2> QED
    BY <2>1, <2>2
<1>15. CASE Fail
  BY <1>15 DEF Fail, Exit, drive, command
<1>16. CASE ReadFile
  BY <1>16 DEF ReadFile
<1>17. CASE Written
  BY <1>17 DEF Written
<1>18. CASE Interrupt
  BY <1>18 DEF Interrupt
<1>19. CASE Kill
  BY <1>19 DEF Kill, Exit, drive, command
<1>20. CASE UNCHANGED vars
  BY <1>20 DEF vars
<1> QED
  BY <1>1, <1>2, <1>3, <1>4, <1>5, <1>6, <1>7, <1>8, <1>9, <1>10, <1>11, <1>12, <1>13, <1>14,
       <1>15, <1>16, <1>17, <1>18, <1>19, <1>20 DEF Next, Host, Goroutine, Begins

\* Nothing happens between two commands.
LEMMA Rests ==
  ASSUME TypeOK, Inv, [Next]_vars, pc = "idle", pc' = "idle"
  PROVE  UNCHANGED <<memory, cic, save, job, result, before, misread>>
PROOF
<1>1. ~Begins
  BY BegunFacts DEF Begun
<1>2. producer = "off"
  BY DEF Inv, Feeding
<1> QED
  BY <1>1, <1>2 DEF Next, Host, Goroutine, Begins, SetExtended, Open, NextChunk, Fill, FillEnds,
       Load, ReadBoot, SetCic, LookUp, ReadHeader, SetSave, Dump, DumpEnds, Fail, ReadFile,
       Written, Interrupt, Kill, vars, drive, command

\* What a command has promised holds when it has ended.
LEMMA KeepsEnded ==
  ASSUME TypeOK, Inv, [Next]_vars
  PROVE  Ended'
PROOF
<1> SUFFICES ASSUME pc' = "idle"
             PROVE  UploadIsPrefix' /\ UploadComplete' /\ CicFits' /\ SaveFits'
  BY DEF Ended
<1>1. CASE pc = "idle"
  <2>1. UNCHANGED <<pc, memory, cic, save, job, result, before, misread>>
    BY <1>1, Rests
  <2>2. /\ UploadIsPrefix' <=> UploadIsPrefix
        /\ UploadComplete' <=> UploadComplete
    BY <2>1, SameJob DEF UploadIsPrefix, UploadComplete, InPlace
  <2>3. /\ CicFits' <=> CicFits
        /\ SaveFits' <=> SaveFits
    BY <2>1, SameJob DEF CicFits, SaveFits, WholeRom, RightSave, Header, Native, Content
  <2> QED
    BY <1>1, <2>2, <2>3 DEF Inv, Ended
<1>2. CASE pc # "idle"
  <2>1. /\ UNCHANGED <<job, before, misread>>
        /\ memory' = memory \/ (Load /\ result' # "ok")
        /\ result' = "ok"
             => \/ /\ "cic" \notin job.auto /\ "save" \notin job.auto
                   /\ job.cmd = "upload" /\ Fits => Mirrors(Limit)
                \/ /\ pc = "cic" /\ "save" \notin job.auto
                   /\ cic' = IF HasCic THEN found ELSE cic
                \/ pc = "save" /\ save' = found /\ cic' = cic
    BY <1>2, Ends
  <2>2. UploadIsPrefix'
    <3>1. CASE memory' = memory
      <4>1. UploadIsPrefix
        BY <1>2, UploadNow
      <4> QED
        BY <2>1, <3>1, <4>1, SameJob DEF UploadIsPrefix, InPlace
    <3>2. CASE Load
      BY <3>2, LoadIsPrefix
    <3> QED
      BY <2>1, <3>1, <3>2
  <2>3. ASSUME job'.cmd = "upload", result' = "ok", Fits'
        PROVE  \A a \in 0 .. MemorySize - 1 : InPlace(a, Limit)'
    <3>1. memory' = memory /\ job' = job /\ before' = before /\ Fits
      BY <2>1, <2>3, SameJob
    <3>2. Mirrors(Limit)
      BY <2>1, <2>3, <3>1 DEF Inv, Uploading, Settling
    <3>3. \A a \in 0 .. MemorySize - 1 : InPlace(a, Limit)
      BY <3>2, MirroredInPlace DEF Inv
    <3> QED
      BY <3>1, <3>3, SameJob DEF InPlace
  <2>4. UploadComplete'
    BY <2>3 DEF UploadComplete, Limit
  <2>5. CicFits'
    <3>1. SUFFICES ASSUME result' = "ok", "cic" \in job'.auto, HasCic
                   PROVE  cic'.boots /\ Header(Boot)' = Native(cic, Boot)'
      BY DEF CicFits
    <3>2. memory' = memory /\ job' = job
      BY <2>1, <3>1
    <3>3. \/ pc = "cic" /\ cic' = found
          \/ pc = "save" /\ cic' = cic
      BY <2>1, <3>1
    <3>4. Boots(cic')
      BY <3>1, <3>2, <3>3 DEF Inv, Settings
    <3> QED
      BY <3>2, <3>4 DEF Boots, Header, Native, Content
  <2>6. SaveFits'
    <3>1. SUFFICES ASSUME result' = "ok", WholeRom', "save" \in job'.auto, ~misread'
                   PROVE  save' = RightSave(job.file)'
      BY DEF SaveFits
    <3>2. memory' = memory /\ job' = job
      BY <2>1, <3>1
    <3>3. pc = "save" /\ save' = found
      BY <2>1, <3>1
    <3>4. WholeRom
      BY <3>1, <3>2, SameJob DEF WholeRom, Header, Native, Content
    <3>5. found = RightSave(job.file)
      BY <2>1, <3>1, <3>3, <3>4 DEF Inv, Settings
    <3> QED
      BY <3>2, <3>3, <3>5 DEF RightSave
  <2> QED
    BY <2>2, <2>4, <2>5, <2>6
<1> QED
  BY <1>1, <1>2

------------------------------------------------------------------------------
(* The theorems *)

\* The 64drive is blank, and there has been no command.
LEMMA InitHolds == Init => Inv
PROOF
<1> SUFFICES ASSUME Init PROVE Inv
  OBVIOUS
<1>1. Space \in Nat \ {0} /\ Chunk \in Nat /\ Block \in Nat /\ MaxCalls \in Nat
  BY ChunkAligned, SpaceFacts, TransferAssumption
<1>2. job = NoJob /\ job \in Jobs
  BY SpaceFacts DEF Init, NoJob, Jobs, Cmds
<1>3. /\ job.cmd = "none" /\ job.file = Nothing /\ job.size = 0 /\ job.offset = 0
      /\ job.auto = {}
  BY <1>2 DEF NoJob
<1>4. Blank \in Cells
  BY DEF Blank, Cells
<1>5. TypeOK
  <2>1. memory \in [0 .. MemorySize - 1 -> Cells] /\ before \in [0 .. MemorySize - 1 -> Cells]
    BY <1>4 DEF Init
  <2>2. <<>> \in Seq(Cells) /\ Len(<<>>) = 0
    OBVIOUS
  <2>3. buf = <<>> /\ block = <<>> /\ out = <<>> /\ hashed = <<>>
    BY DEF Init
  <2>4. /\ buf \in Seq(Cells) /\ Len(buf) <= Chunk /\ block \in Seq(Cells) /\ Len(block) <= Block
        /\ {out, hashed} \subseteq Seq(Cells)
    BY <1>1, <2>2, <2>3
  <2>5. /\ {cic, save, found} \subseteq Files \cup {Nothing} /\ extended \in BOOLEAN
        /\ {cancelled, misread} \subseteq BOOLEAN
    BY DEF Init
  <2>6. /\ pc = "idle" /\ result = "none" /\ calls = 0 /\ left = 0 /\ addr = 0
        /\ producer = "off" /\ end = "more" /\ pos = 0
    BY DEF Init
  <2> QED
    BY <1>1, <1>2, <2>1, <2>4, <2>5, <2>6 DEF TypeOK
<1>6. Where
  BY <1>1, <1>3 DEF Init, Where
<1>7. Feeding
  <2>1. job.file.length \in Nat
    BY <1>5, JobTyped
  <2> QED
    BY <1>3, <2>1 DEF Init, Feeding
<1>8. Uploading /\ Downloading /\ DownloadIsPrefix /\ Settings
  BY <1>3 DEF Init, Uploading, Downloading, DownloadIsPrefix, Settings, Settling
<1>9. Ended
  <2>1. ASSUME NEW a PROVE ~(a \in job.offset .. job.offset + 0 - 1)
    BY <1>3
  <2>2. \A a \in 0 .. MemorySize - 1 : InPlace(a, 0)
    BY <2>1 DEF Init, InPlace
  <2>3. 0 \in 0 .. Limit
    BY <1>5, AskedFacts DEF Limit
  <2> QED
    BY <1>3, <2>2, <2>3 DEF Init, Ended, UploadIsPrefix, UploadComplete, CicFits, SaveFits, Limit
<1> QED
  BY <1>5, <1>6, <1>7, <1>8, <1>9 DEF Inv

\* Every step keeps it all.
LEMMA StepKeeps == Inv /\ [Next]_vars => Inv'
PROOF
<1> SUFFICES ASSUME Inv, [Next]_vars PROVE Inv'
  OBVIOUS
<1>1. TypeOK
  BY DEF Inv
<1> QED
  BY <1>1, KeepsTypes, KeepsWhere, KeepsFeeding, KeepsUploading, KeepsDownloading, KeepsSettings,
     KeepsEnded DEF Inv

\* The inductive invariant says all that is promised.
LEMMA InvPromises ==
  ASSUME Inv
  PROVE  /\ TypeOK /\ UploadIsPrefix /\ UploadComplete /\ DownloadIsPrefix
         /\ CicFits /\ SaveFits
PROOF
<1>1. CASE pc = "idle"
  BY <1>1 DEF Inv, Ended
<1>2. CASE pc # "idle"
  <2>1. UploadIsPrefix /\ UploadComplete
    BY <1>2, UploadNow DEF Inv
  <2>2. result = "none"
    BY <1>2 DEF Inv, Where
  <2> QED
    BY <2>1, <2>2 DEF Inv, CicFits, SaveFits
<1> QED
  BY <1>1, <1>2

\* It holds in every state of every behaviour.
THEOREM Invariance == Spec => []Inv
  BY InitHolds, StepKeeps, PTL DEF Spec

\* Every variable keeps its type: no chunk is longer than a USB command, no read of the file
\* longer than its buffer, and no address wider than 32 bits.
THEOREM TypeCorrect == Spec => []TypeOK
PROOF
<1>1. Inv => TypeOK
  BY InvPromises
<1> QED
  BY <1>1, Invariance, PTL

\* Whenever an upload is looked at, and however it fails or is stopped, a bank that has room
\* for it holds a beginning of the file in its place and nothing else has changed.
THEOREM UploadsArePrefixes == Spec => []UploadIsPrefix
PROOF
<1>1. Inv => UploadIsPrefix
  BY InvPromises
<1> QED
  BY <1>1, Invariance, PTL

\* The settings are fitted to an upload that the bank has room for, and it is reported as done,
\* only when all of it is there.
THEOREM UploadsAreComplete == Spec => []UploadComplete
PROOF
<1>1. Inv => UploadComplete
  BY InvPromises
<1> QED
  BY <1>1, Invariance, PTL

\* The file of a download is as long as what was asked for on success and never longer, and a
\* beginning of its range when the bank has it.
THEOREM DownloadsArePrefixes == Spec => []DownloadIsPrefix
PROOF
<1>1. Inv => DownloadIsPrefix
  BY InvPromises
<1> QED
  BY <1>1, Invariance, PTL

\* A success of --autocic or cic auto leaves the CIC of the ROM in the bank.
THEOREM CicsFit == Spec => []CicFits
PROOF
<1>1. Inv => CicFits
  BY InvPromises
<1> QED
  BY <1>1, Invariance, PTL

\* A success of --autosave leaves the save type of the ROM that was uploaded.
THEOREM SavesFit == Spec => []SaveFits
PROOF
<1>1. Inv => SaveFits
  BY InvPromises
<1> QED
  BY <1>1, Invariance, PTL

------------------------------------------------------------------------------
(* The transfers implement Copying *)

\* Where the copy stands, which the address keeps until the command ends.
Placed ==
  /\ pc # "idle" /\ job.cmd \notin {"upload", "download"} => addr = job.offset
  /\ pc \in Settling /\ job.cmd = "upload" /\ Fits => Done = Limit

\* The source of a transfer, and its length.
Sourced ==
  /\ Source \in Seq(SUBSET Cells)
  /\ job.cmd = "upload" =>
       /\ Len(Source) = Limit /\ Limit \in Nat
       /\ \A i \in 1 .. Limit :
            Source[i] = IF i <= Asked
                        THEN {[file |-> job.file, at |-> i - 1, swap |-> b] : b \in BOOLEAN}
                        ELSE {Filler}
  /\ job.cmd = "download" =>
       /\ Len(Source) = job.size
       /\ \A i \in 1 .. job.size : Source[i] = {CellRead(job.offset + i - 1)}
  /\ job.cmd \notin {"upload", "download"} => Len(Source) = 0

\* It is so for every command.
LEMMA SourceFacts ==
  ASSUME TypeOK, Where
  PROVE  Sourced
PROOF
<1>1. /\ job.size \in Nat /\ job.offset \in Nat /\ job.swap \in BOOLEAN
      /\ job.file \in Files \cup {Nothing} /\ Limit \in Nat /\ Asked \in Nat
  BY JobTyped, AskedFacts DEF Limit
<1>2. CASE job.cmd = "upload"
  <2> DEFINE cells(i) == IF i <= Asked
                         THEN {[file |-> job.file, at |-> i - 1, swap |-> b] : b \in BOOLEAN}
                         ELSE {Filler}
  <2>1. Source = [i \in 1 .. Limit |-> cells(i)]
    BY <1>2 DEF Source, Limit
  <2>2. \A i \in 1 .. Limit : cells(i) \in SUBSET Cells
    <3> TAKE i \in 1 .. Limit
    <3>1. i - 1 \in Nat
      BY <1>1
    <3>2. /\ Filler \in Cells
          /\ \A b \in BOOLEAN : [file |-> job.file, at |-> i - 1, swap |-> b] \in Cells
      BY <1>1, <3>1 DEF Filler, Cells
    <3> QED
      BY <3>2
  <2> HIDE DEF cells
  <2>3. Source \in Seq(SUBSET Cells) /\ Len(Source) = Limit
    <3>1. Source \in [1 .. Limit -> SUBSET Cells]
      BY <2>1, <2>2
    <3> QED
      BY <1>1, <3>1, LenProperties
  <2> QED
    BY <1>1, <1>2, <2>1, <2>3 DEF cells, Sourced
<1>3. CASE job.cmd = "download"
  <2> DEFINE cells(i) == {CellRead(job.offset + i - 1)}
  <2>1. Source = [i \in 1 .. job.size |-> cells(i)]
    BY <1>3 DEF Source
  <2>2. \A i \in 1 .. job.size : cells(i) \in SUBSET Cells
    BY CellReadTyped
  <2> HIDE DEF cells
  <2>3. Source \in Seq(SUBSET Cells) /\ Len(Source) = job.size
    <3>1. Source \in [1 .. job.size -> SUBSET Cells]
      BY <2>1, <2>2
    <3> QED
      BY <1>1, <3>1, LenProperties
  <2> QED
    BY <1>1, <1>3, <2>1, <2>3 DEF cells, Sourced
<1>4. CASE job.cmd \notin {"upload", "download"}
  <2>1. Source = <<>>
    BY <1>4 DEF Source
  <2> QED
    BY <1>4, <2>1 DEF Sourced
<1> QED
  BY <1>2, <1>3, <1>4

\* And for the next one.
LEMMA SourceNext == TypeOK' /\ Where' => Sourced'
PROOF
<1>1. TypeOK /\ Where => Sourced
  BY SourceFacts
<1> QED
  BY <1>1, PTL

\* It stays the same for the whole of a command.
LEMMA SameSource ==
  ASSUME UNCHANGED job, job.cmd = "download" => UNCHANGED memory
  PROVE  Source' = Source
PROOF
<1>1. CASE job.cmd = "download"
  <2>1. \A a : CellRead(a)' = CellRead(a)
    BY <1>1 DEF CellRead
  <2> QED
    BY <1>1, <2>1 DEF Source
<1>2. CASE job.cmd = "upload"
  <2>1. Asked' = Asked /\ PadUp(Asked)' = PadUp(Asked)
    BY SameJob DEF PadUp
  <2> QED
    BY <1>2, <2>1 DEF Source, Filler, Nothing
<1>3. CASE job.cmd \notin {"upload", "download"}
  BY <1>3 DEF Source
<1> QED
  BY <1>1, <1>2, <1>3

\* A command that goes on has copied no more than there is.
LEMMA DoneFacts ==
  ASSUME Inv, Placed, Fits, pc # "idle"
  PROVE  Done \in 0 .. Len(Source) /\ Len(Source) \in Nat
PROOF
<1>0. TypeOK /\ Where
  BY DEF Inv
<1>1. /\ job.size \in Nat /\ job.offset \in Nat /\ job.file.length \in Nat /\ addr \in Nat
      /\ pos \in Nat /\ left \in Nat
  <2>1. addr \in 0 .. Space - 1 /\ pos \in Nat /\ left \in Nat
    BY <1>0 DEF TypeOK
  <2> QED
    BY <1>0, <2>1, JobTyped, SpaceFacts
<1>2. CASE job.cmd = "upload"
  <2>0. Len(Source) = Limit /\ Limit \in Nat
    BY <1>0, <1>2, SourceFacts DEF Sourced
  <2>1. CASE pc \in Settling
    BY <1>2, <2>0, <2>1 DEF Placed
  <2>2. CASE pc \in {"extended", "open"}
    <3>1. addr = job.offset
      BY <1>2, <2>2 DEF Inv, Uploading
    <3>2. Done = 0
      BY <1>1, <3>1 DEF Done
    <3> QED
      BY <2>0, <3>2
  <2>3. CASE pc = "head" /\ left = 0
    BY <1>0, <1>2, <2>0, <2>3, LoopEnds
  <2>4. CASE pc \in {"head", "fill"} /\ left > 0
    <3>1. Stream /\ addr >= job.offset /\ pos <= job.file.length
      BY <1>2, <2>4 DEF Inv, Uploading, Feeding
    <3>2. Done \in Nat
      BY <1>1, <3>1 DEF Done
    <3>3. PICK b \in Nat, q \in Nat : b = Len(buf) /\ q = Len(block)
      BY <1>0, LenProperties DEF TypeOK
    <3>4. left = job.size - Done /\ Done + b + q = pos
      BY <3>1, <3>3 DEF Stream
    <3>5. Asked \in Nat /\ Asked <= Limit
          /\ Asked = IF job.size <= job.file.length THEN job.size ELSE job.file.length
      BY <1>0, AskedFacts DEF Limit
    <3> HIDE DEF Done
    <3>6. Done <= job.size /\ Done <= job.file.length
      BY <1>1, <2>4, <3>1, <3>2, <3>3, <3>4
    <3> QED
      BY <1>1, <2>0, <3>2, <3>5, <3>6
  <2>5. pc \in Settling \cup {"extended", "open", "head", "fill"}
    BY <1>0, <1>2 DEF TypeOK, Where, Settling
  <2>6. left = 0 \/ left > 0
    BY <1>1
  <2>7. pc = "fill" => left > 0
    BY <1>2 DEF Inv, Uploading
  <2> QED
    BY <2>1, <2>2, <2>3, <2>4, <2>5, <2>6, <2>7
<1>3. CASE job.cmd = "download"
  <2>1. pc = "dump"
    BY <1>0, <1>3 DEF Where
  <2>2. addr = job.offset + Len(out) /\ left = job.size - Len(out)
    BY <2>1 DEF Inv, Downloading
  <2>3. PICK n \in Nat : n = Len(out)
    BY <1>0, LenProperties DEF TypeOK
  <2>4. Done = n /\ n <= job.size
    BY <1>1, <2>2, <2>3 DEF Done
  <2>5. Len(Source) = job.size
    BY <1>0, <1>3, SourceFacts DEF Sourced
  <2> QED
    BY <1>1, <2>4, <2>5
<1>4. CASE job.cmd \notin {"upload", "download"}
  <2>1. addr = job.offset
    BY <1>4 DEF Placed
  <2>2. Len(Source) = 0
    BY <1>0, <1>4, SourceFacts DEF Sourced
  <2>3. Done = 0
    BY <1>1, <2>1 DEF Done
  <2> QED
    BY <2>2, <2>3
<1> QED
  BY <1>2, <1>3, <1>4

\* Only the loop of an upload and that of a download copy anything.
LEMMA CopiesNothing ==
  ASSUME Inv, [Next]_vars, pc # "idle", ~Load, ~Dump
  PROVE  /\ UNCHANGED <<memory, out, job>>
         /\ pc' # "idle" => UNCHANGED <<addr, result>>
PROOF
<1>1. ~Begins
  BY BegunFacts DEF Start
<1>2. CASE SetExtended
  BY <1>2 DEF SetExtended, Exit, command
<1>3. CASE Open
  BY <1>3 DEF Open, drive, command, transfer
<1>4. CASE NextChunk
  BY <1>4 DEF NextChunk, Exit, Proceed, drive, command
<1>5. CASE Fill
  BY <1>5 DEF Fill, drive, command
<1>6. CASE FillEnds
  BY <1>6 DEF FillEnds, Exit, Proceed, drive, command
<1>7. CASE ReadBoot
  BY <1>7 DEF ReadBoot, Exit, drive, command
<1>8. CASE SetCic
  BY <1>8 DEF SetCic, Exit, Proceed, command
<1>9. CASE LookUp
  BY <1>9 DEF LookUp, drive, command, transfer
<1>10. CASE ReadHeader
  BY <1>10 DEF ReadHeader, drive, command, transfer
<1>11. CASE SetSave
  BY <1>11 DEF SetSave, Exit, command
<1>12. CASE DumpEnds
  BY <1>12 DEF DumpEnds, Exit, drive, command
<1>13. CASE Fail
  BY <1>13 DEF Fail, Exit, drive, command
<1>14. CASE ReadFile
  BY <1>14 DEF ReadFile, drive, command, transfer
<1>15. CASE Written
  BY <1>15 DEF Written, drive, command, transfer
<1>16. CASE Interrupt
  BY <1>16 DEF Interrupt, drive, command
<1>17. CASE Kill
  BY <1>17 DEF Kill, Exit, drive, command
<1>18. CASE UNCHANGED vars
  BY <1>18 DEF vars, drive, command, transfer
<1> QED
  BY <1>1, <1>2, <1>3, <1>4, <1>5, <1>6, <1>7, <1>8, <1>9, <1>10, <1>11, <1>12, <1>13, <1>14,
       <1>15, <1>16, <1>17, <1>18 DEF Next, Host, Goroutine, Begins

\* The settings are reached, and an upload is over, when all of it is copied.
LEMMA KeepsPlaced ==
  ASSUME Inv, Placed, [Next]_vars
  PROVE  Placed'
PROOF
<1>0. TypeOK
  BY DEF Inv
<1>1. CASE Begins
  <2>1. Begun(job') /\ addr' = job'.offset
    BY <1>1, BegunFacts DEF Start
  <2> QED
    BY <2>1 DEF Begun, Placed, Settling
<1>2. CASE pc' = "idle"
  BY <1>2 DEF Placed, Settling
<1>3. CASE pc = "idle" /\ pc' # "idle" /\ ~Begins
  <2>1. producer = "off"
    BY <1>3 DEF Inv, Feeding
  <2> QED
    BY <1>3, <2>1 DEF Next, Host, Goroutine, Begins, SetExtended, Open, NextChunk, Fill,
       FillEnds, Load, ReadBoot, SetCic, LookUp, ReadHeader, SetSave, Dump, DumpEnds, Fail,
       ReadFile, Written, Interrupt, Kill, vars
<1>4. CASE pc # "idle" /\ pc' # "idle" /\ (Load \/ Dump)
  BY <1>4 DEF Load, Dump, Exit, command, goroutine, Inv, Where, Placed, Settling
<1>5. CASE pc # "idle" /\ pc' # "idle" /\ ~Load /\ ~Dump
  <2>1. UNCHANGED <<job, addr>>
    BY <1>5, CopiesNothing
  <2>2. Done' = Done /\ Limit' = Limit /\ (Fits' <=> Fits)
    BY <2>1, SameJob DEF Done
  <2>3. CASE pc \in Settling \/ pc' \notin Settling \/ job.cmd # "upload" \/ ~Fits
    BY <1>5, <2>1, <2>2, <2>3 DEF Placed
  <2>4. CASE pc \notin Settling /\ pc' \in Settling /\ job.cmd = "upload" /\ Fits
    <3>1. \/ pc = "head" /\ left = 0
          \/ pc = "fill" /\ buf = <<>> /\ end = "EOF"
      <4>1. ~Begins
        BY <1>5, BegunFacts DEF Start
      <4> QED
        BY <1>5, <2>4, <4>1 DEF Next, Host, Goroutine, Begins, SetExtended, Open, NextChunk,
           Fill, FillEnds, ReadBoot, SetCic, LookUp, ReadHeader, SetSave, DumpEnds, Fail,
           ReadFile, Written, Interrupt, Kill, vars, Exit, Proceed, Settling
    <3>2. Done = Limit
      BY <1>0, <2>4, <3>1, LoopEnds
    <3> QED
      BY <2>1, <2>2, <2>4, <3>2 DEF Placed
  <2> QED
    BY <2>3, <2>4
<1> QED
  BY <1>1, <1>2, <1>3, <1>4, <1>5

\* A command ends well when its source is copied, and otherwise says so.
LEMMA EndsWhenCopied ==
  ASSUME Inv, Placed, [Next]_vars, pc # "idle", pc' = "idle"
  PROVE  \/ result' \in {"error", "interrupted", "killed"}
         \/ result' = "ok" /\ ~Load /\ ~Dump /\ (Fits => Done = Len(Source))
PROOF
<1>0. TypeOK /\ Where /\ job.offset \in Nat /\ addr \in Nat
  BY JobTyped, SpaceFacts DEF Inv, TypeOK
<1>1. ~Begins
  BY BegunFacts DEF Start
<1>2. job.cmd = "upload" => Len(Source) = Limit
  BY <1>0, SourceFacts DEF Sourced
<1>3. job.cmd \notin {"upload", "download"} => Len(Source) = 0 /\ Done = 0
  <2> SUFFICES ASSUME job.cmd \notin {"upload", "download"} PROVE Len(Source) = 0 /\ Done = 0
    OBVIOUS
  <2>1. addr = job.offset
    BY DEF Placed
  <2> QED
    BY <1>0, <2>1, SourceFacts DEF Sourced, Done
<1>4. CASE SetExtended
  <2>1. result' = "error" \/ (result' = "ok" /\ job.cmd = "extended")
    BY <1>4 DEF SetExtended, Exit
  <2> QED
    BY <1>3, <1>4, <2>1 DEF SetExtended, Load, Dump
<1>5. CASE NextChunk
  <2>1. result' = "interrupted" \/ (result' = "ok" /\ left = 0)
    BY <1>5 DEF NextChunk, Exit, Proceed, AfterUpload, AfterCic
  <2>2. pc = "head" /\ job.cmd = "upload"
    BY <1>0, <1>5 DEF NextChunk, Where
  <2> QED
    BY <1>0, <1>2, <2>1, <2>2, LoopEnds DEF Load, Dump
<1>6. CASE FillEnds
  <2>1. result' = "error" \/ (result' = "ok" /\ buf = <<>> /\ end = "EOF")
    BY <1>6 DEF FillEnds, Exit, Proceed, AfterUpload, AfterCic
  <2>2. pc = "fill" /\ job.cmd = "upload" /\ ~Load
    <3>1. Len(buf) < Wanted /\ pc = "fill"
      BY <1>6 DEF FillEnds
    <3>2. Len(buf) \in Nat /\ Wanted \in Nat
      BY <1>0, WantedFacts, LenProperties DEF TypeOK
    <3> QED
      BY <1>0, <3>1, <3>2 DEF Load, Where
  <2> QED
    BY <1>0, <1>2, <2>1, <2>2, LoopEnds DEF Dump
<1>7. CASE SetCic \/ SetSave
  <2>1. pc \in {"cic", "save"} /\ result' \in {"ok", "error"}
    BY <1>7 DEF SetCic, SetSave, Exit, Proceed, AfterCic
  <2>2. Fits => Done = Len(Source)
    <3>1. job.cmd # "download"
      BY <1>0, <2>1 DEF Where
    <3>2. job.cmd = "upload" /\ Fits => Done = Limit
      BY <2>1 DEF Placed, Settling
    <3> QED
      BY <1>2, <1>3, <3>1, <3>2
  <2> QED
    BY <2>1, <2>2 DEF Load, Dump
<1>8. CASE DumpEnds
  <2>1. pc = "dump" /\ job.cmd = "download" /\ result' \in {"ok", "interrupted"}
        /\ (result' = "ok" => left = 0)
    BY <1>0, <1>8 DEF DumpEnds, Exit, Where
  <2>2. left = job.size - Len(out) /\ (Fits => addr = job.offset + Len(out))
    BY <2>1 DEF Inv, Downloading
  <2>3. PICK n \in Nat, s \in Nat : n = Len(out) /\ s = job.size
    BY <1>0, JobTyped, LenProperties DEF TypeOK
  <2>4. left = 0 /\ Fits => Done = s
    BY <1>0, <2>2, <2>3 DEF Done
  <2>5. Len(Source) = s
    BY <1>0, <2>1, <2>3, SourceFacts DEF Sourced
  <2>6. left = 0 => ~Dump
    BY DEF Dump
  <2> QED
    BY <2>1, <2>4, <2>5, <2>6 DEF Load
<1>9. CASE Load \/ Dump \/ ReadBoot \/ Fail \/ Kill
  <2>1. result' \in {"error", "killed"}
    BY <1>9 DEF Load, Dump, ReadBoot, Fail, Kill, Exit
  <2> QED
    BY <2>1
<1>10. ~(Open \/ Fill \/ LookUp \/ ReadHeader \/ ReadFile \/ Written \/ Interrupt \/ UNCHANGED vars)
  BY DEF Open, Fill, LookUp, ReadHeader, ReadFile, Written, Interrupt, vars
<1> QED
  BY <1>1, <1>4, <1>5, <1>6, <1>7, <1>8, <1>9, <1>10 DEF Next, Host, Goroutine, Begins

\* The next command has its own source and has copied nothing.
LEMMA BeginsToCopy ==
  ASSUME Inv, Inv', Begins
  PROVE  Copy!Begin
PROOF
<1>1. /\ pc = "idle" /\ pc' # "idle" /\ result' = "none" /\ out' = <<>> /\ memory' = memory
      /\ addr' = job'.offset
  BY BegunFacts DEF Start, Begun, drive
<1>2. Sourced'
  BY SourceNext DEF Inv
<1>3. job'.size \in Nat /\ job'.offset \in Nat /\ job'.swap \in BOOLEAN
      /\ job'.file.length \in Nat /\ MemorySize \in Nat
  <2>1. Space \in Nat /\ MemorySize \in Nat
    BY SpaceFacts
  <2>2. job' \in Jobs
    BY BegunFacts
  <2>3. job'.file.length \in Nat
    BY <2>2, FileTyped DEF Jobs
  <2> QED
    BY <2>1, <2>2, <2>3 DEF Jobs
<1>4. Len(Source') \in Nat /\ (Fits' => job'.offset + Len(Source') <= MemorySize)
  <2>1. PadUp(job'.size) \in Nat /\ job'.size <= PadUp(job'.size) /\ Limit' \in Nat
    <3>1. Asked' \in Nat
      BY <1>3, LeastOfTwo DEF Asked
    <3> QED
      BY <1>3, <3>1, PadUpFacts DEF Limit
  <2>2. Extent' = IF job'.cmd = "upload" THEN Limit' ELSE PadUp(job'.size)
    BY DEF Extent, Limit
  <2>3. Len(Source') = CASE job'.cmd = "upload" -> Limit'
                         [] job'.cmd = "download" -> job'.size
                         [] OTHER -> 0
    BY <1>2 DEF Sourced
  <2>4. Len(Source') \in Nat /\ Len(Source') <= Extent' /\ Extent' \in Nat
    BY <1>3, <2>1, <2>2, <2>3
  <2>5. Fits' => job'.offset + Extent' <= MemorySize
    BY DEF Fits
  <2> QED
    BY <1>3, <2>4, <2>5
<1>5. Fits' => job'.offset .. job'.offset + Len(Source') - 1 \subseteq 0 .. MemorySize - 1
  <2>1. PICK o \in Nat, n \in Nat : o = job'.offset /\ n = Len(Source')
    BY <1>3, <1>4
  <2> QED
    BY <1>3, <1>4, <2>1
<1>6. ASSUME job'.cmd = "download", Fits'
      PROVE  \/ \A i \in 1 .. Len(Source') : Source'[i] = {memory[job'.offset + i - 1]}
             \/ \A i \in 1 .. Len(Source') :
                  Source'[i] = {SwappedCell(memory[job'.offset + i - 1])}
  <2>1. ASSUME NEW i \in 1 .. Len(Source')
        PROVE  /\ memory[job'.offset + i - 1] \in Cells
               /\ Source'[i] = {[memory[job'.offset + i - 1] EXCEPT
                                   !.swap = (memory[job'.offset + i - 1].swap # job'.swap)]}
    <3>1. PICK a \in 0 .. MemorySize - 1 : a = job'.offset + i - 1
      BY <1>3, <1>4, <1>6
    <3>2. memory \in [0 .. MemorySize - 1 -> Cells] /\ memory[a] \in Cells
      BY <3>1 DEF Inv, TypeOK
    <3>3. Source'[i] = {CellRead(job.offset + i - 1)'}
      BY <1>2, <1>6 DEF Sourced
    <3>4. CellRead(job.offset + i - 1)'
            = [memory[a] EXCEPT !.swap = (memory[a].swap # job'.swap)]
      BY <1>1, <3>1, <3>2 DEF CellRead
    <3> QED
      BY <3>1, <3>2, <3>3, <3>4
  <2>2. CASE job'.swap = TRUE
    <3>1. \A cell \in Cells : [cell EXCEPT !.swap = (cell.swap # TRUE)] = SwappedCell(cell)
      BY DEF Cells, SwappedCell
    <3> QED
      BY <2>1, <2>2, <3>1
  <2>3. CASE job'.swap = FALSE
    <3>1. \A cell \in Cells : [cell EXCEPT !.swap = (cell.swap # FALSE)] = cell
      BY DEF Cells
    <3> QED
      BY <2>1, <2>3, <3>1
  <2> QED
    BY <1>3, <2>2, <2>3
<1>7. addr' - job'.offset = 0
  BY <1>1, <1>3
<1>8. Fits' \in BOOLEAN
  BY DEF Fits
<1> QED
  BY <1>1, <1>2, <1>3, <1>5, <1>6, <1>7, <1>8 DEF Copy!Begin, Sourced

\* A load copies the units that follow, as far as it gets.
LEMMA LoadCopies ==
  ASSUME Inv, Placed, Fits, Load
  PROVE  \E n \in 0 .. Len(Source) - Done :
           /\ Copy!ToMemory(n)
           /\ \/ pc' = "idle"
              \/ pc' = "head" /\ result' = result /\ addr' - job.offset = Done + n
PROOF
<1>0. TypeOK /\ Where /\ Feeding
  BY DEF Inv
<1>1. PICK n \in 0 .. Len(Padded) :
        /\ memory' = Loaded(Padded, n, addr)
        /\ \/ pc' = "idle"
           \/ pc' = "head" /\ result' = result /\ addr' = addr + n
  <2>1. /\ Len(Padded) \in Nat /\ addr + Len(Padded) <= MemorySize
        /\ addr \in Nat /\ MemorySize \in Nat /\ Space \in Nat /\ MemorySize < Space
    BY <1>0, ChunkFits, SpaceFacts DEF TypeOK
  <2>2. (addr + Len(Padded)) % Space = addr + Len(Padded)
    <3>1. addr + Len(Padded) \in 0 .. Space - 1
      BY <2>1
    <3> QED
      BY <3>1, AddressCut
  <2>3. PICK n \in 0 .. Len(Padded) :
          /\ memory' \in Stored(Padded, n, addr)
          /\ \/ pc' = "idle"
             \/ pc' = "head" /\ result' = result /\ addr' = addr + n
    <3>1. Len(Padded) \in 0 .. Len(Padded)
      BY <2>1
    <3>2. \/ /\ memory' \in Stored(Padded, Len(Padded), addr)
             /\ pc' = "head" /\ result' = result /\ addr' = (addr + Len(Padded)) % Space
          \/ \E n \in 0 .. Len(Padded) : memory' \in Stored(Padded, n, addr) /\ pc' = "idle"
      BY DEF Load, Exit
    <3> QED
      BY <2>2, <3>1, <3>2
  <2>4. addr + n <= MemorySize
    BY <2>1
  <2> QED
    BY <2>3, <2>4, StoredInside
<1>2. /\ job.cmd = "upload" /\ Done \in Nat /\ addr = job.offset + Done /\ pc = "fill"
      /\ Len(Padded) \in Nat /\ Done + Len(Padded) <= Limit
  BY ChunkFits DEF Load
<1>3. /\ job.offset \in Nat /\ MemorySize \in Nat /\ Limit \in Nat /\ Asked \in Nat
      /\ job.file \in Files \cup {Nothing} /\ pos \in Nat
  BY <1>0, JobTyped, AskedFacts, TransferAssumption DEF Limit, TypeOK
<1>4. /\ Len(Source) = Limit
      /\ \A i \in 1 .. Limit :
           Source[i] = IF i <= Asked
                       THEN {[file |-> job.file, at |-> i - 1, swap |-> b] : b \in BOOLEAN}
                       ELSE {Filler}
  BY <1>0, <1>2, SourceFacts DEF Sourced
<1>5. /\ memory' \in [0 .. MemorySize - 1 -> Cells]
      /\ \A a \in 0 .. MemorySize - 1 :
           IF a \in job.offset .. job.offset + (Done + n) - 1
           THEN IF a - job.offset < Asked
                THEN a - job.offset < pos /\ memory'[a] = hashed[a - job.offset + 1]
                ELSE memory'[a] = Filler
           ELSE memory'[a] = before[a]
  <2>1. memory' \in Stored(Padded, n, addr) /\ Padded \in Seq(Cells)
    BY <1>0, <1>1, PaddedFacts DEF Stored
  <2>2. memory' \in [0 .. MemorySize - 1 -> Cells]
    BY <1>0, <2>1, StoredTyped
  <2> QED
    BY <1>1, <2>2, LoadMirrors
<1>6. PICK o \in Nat, d \in Nat, k \in Nat :
        o = job.offset /\ d = Done /\ k = n /\ d + k <= Limit /\ addr = o + d
  <2>1. n \in Nat /\ n <= Len(Padded)
    BY <1>2
  <2> HIDE DEF Done
  <2>2. Done + n <= Limit
    BY <1>2, <1>3, <2>1
  <2> QED
    BY <1>2, <1>3, <2>1, <2>2
<1>7. ASSUME NEW a \in 0 .. MemorySize - 1
      PROVE  IF a \in o + d .. o + d + k - 1
             THEN memory'[a] \in Source[a - o + 1]
             ELSE memory'[a] = memory[a]
  <2>1. CASE a \in o + d .. o + d + k - 1
    <3>1. PICK i \in 1 .. Limit : i = a - o + 1
      BY <1>3, <1>6, <2>1
    <3>2. /\ a \in o .. o + (d + k) - 1 /\ (a - o < Asked <=> i <= Asked)
          /\ (a - o < pos => i \in 1 .. pos) /\ a - o = i - 1
      <4>1. a \in Nat /\ o + d <= a /\ a <= o + d + k - 1
        BY <1>3, <2>1
      <4>2. PICK q \in Nat, p \in Nat : q = Asked /\ p = pos
        BY <1>3
      <4>3. i \in Nat /\ a - o = i - 1
        BY <1>3, <3>1, <4>1
      <4> QED
        BY <4>1, <4>2, <4>3
    <3>3. CASE i <= Asked
      <4>1. i \in 1 .. pos /\ memory'[a] = hashed[i]
        BY <1>5, <1>6, <3>1, <3>2, <3>3
      <4>2. hashed[i].file = job.file /\ hashed[i].at = i - 1 /\ hashed[i] \in Cells
        <5>1. hashed \in Seq(Cells) /\ Len(hashed) = pos
          BY <1>0 DEF TypeOK, Feeding
        <5>2. hashed[i] \in Cells
          BY <4>1, <5>1, ElementOfSeq
        <5> QED
          BY <1>0, <4>1, <5>2 DEF Feeding
      <4>3. hashed[i] = [file |-> job.file, at |-> i - 1, swap |-> hashed[i].swap]
            /\ hashed[i].swap \in BOOLEAN
        BY <4>2 DEF Cells
      <4>4. Source[i] = {[file |-> job.file, at |-> i - 1, swap |-> b] : b \in BOOLEAN}
        BY <1>4, <3>3
      <4> QED
        BY <2>1, <3>1, <4>1, <4>3, <4>4
    <3>4. CASE ~(i <= Asked)
      <4>1. memory'[a] = Filler
        BY <1>5, <1>6, <3>2, <3>4
      <4> QED
        BY <1>4, <2>1, <3>1, <3>4, <4>1
    <3> QED
      BY <3>3, <3>4
  <2>2. CASE ~(a \in o + d .. o + d + k - 1)
    <3>1. a \in DOMAIN memory
      BY <1>0 DEF TypeOK
    <3> QED
      BY <1>1, <1>6, <2>2, <3>1 DEF Loaded
  <2> QED
    BY <2>1, <2>2
<1>8. out' = out
  BY DEF Load
<1>9. Copy!ToMemory(k)
  <2>1. job.offset + (addr - job.offset) = o + d
    BY <1>6
  <2> QED
    BY <1>2, <1>5, <1>6, <1>7, <1>8, <2>1 DEF Copy!ToMemory
<1>10. k \in 0 .. Len(Source) - Done /\ (addr' = addr + n => addr' - job.offset = Done + k)
  <2> HIDE DEF Done
  <2> QED
    BY <1>3, <1>4, <1>6
<1> QED
  BY <1>1, <1>9, <1>10

\* So does a dump, to the file.
LEMMA DumpCopies ==
  ASSUME Inv, Placed, Fits, Dump
  PROVE  \E n \in 0 .. Len(Source) - Done :
           /\ Copy!ToFile(n)
           /\ \/ pc' = "idle"
              \/ pc' = "dump" /\ result' = result /\ addr' - job.offset = Done + n
PROOF
<1>0. TypeOK /\ Where
  BY DEF Inv
<1>1. Wanted \in Nat /\ left - Wanted \in Nat
  BY DumpFacts
<1>2. PICK n \in 0 .. Wanted :
        /\ out' \in Seq(Cells) /\ Len(out') = Len(out) + n
        /\ \A i \in 1 .. Len(out) : out'[i] = out[i]
        /\ \A i \in 1 .. n : out'[Len(out) + i] = CellRead(addr + i - 1)
        /\ \/ pc' = "idle"
           \/ pc' = "dump" /\ result' = result /\ addr' = addr + n
  BY DumpFacts DEF Exit, Dump
<1>3. pc = "dump" /\ job.cmd = "download" /\ memory' = memory
  BY <1>0 DEF Dump, Where, drive
<1>4. addr = job.offset + Len(out) /\ left = job.size - Len(out)
  BY <1>3 DEF Inv, Downloading
<1>5. PICK l \in Nat, o \in Nat, s \in Nat, k \in Nat :
        l = Len(out) /\ o = job.offset /\ s = job.size /\ k = n /\ l + k <= s
  <2>1. Len(out) \in Nat /\ job.offset \in Nat /\ job.size \in Nat /\ n \in Nat
    BY <1>0, <1>1, JobTyped, LenProperties DEF TypeOK
  <2>2. Len(out) + n <= job.size
    BY <1>1, <1>4, <2>1
  <2> QED
    BY <2>1, <2>2
<1>6. Done = l /\ addr = o + l
  BY <1>4, <1>5 DEF Done
<1>7. Len(Source) = s /\ \A i \in 1 .. s : Source[i] = {CellRead(o + i - 1)}
  BY <1>0, <1>3, <1>5, SourceFacts DEF Sourced
<1>8. /\ out' \in Seq(Cells) /\ Len(out') = l + k
      /\ \A i \in 1 .. l : out'[i] = out[i]
      /\ \A i \in 1 .. k : out'[l + i] = CellRead(o + l + i - 1)
  BY <1>1, <1>2, <1>5, <1>6
<1>9. ASSUME NEW i \in 1 .. l + k
      PROVE  IF i <= l THEN out'[i] = out[i] ELSE out'[i] \in Source[i]
  <2>1. CASE i <= l
    BY <1>8, <2>1
  <2>2. CASE ~(i <= l)
    <3>1. PICK j \in 1 .. k : i = l + j /\ o + l + j - 1 = o + i - 1 /\ i \in 1 .. s
      <4>1. PICK j \in Nat : i = l + j
        BY <2>2
      <4>2. j \in 1 .. k /\ o + l + j - 1 = o + i - 1 /\ i \in 1 .. s
        BY <1>5, <2>2, <4>1
      <4> QED
        BY <4>1, <4>2
    <3>2. out'[i] = CellRead(o + i - 1)
      BY <1>8, <3>1
    <3>3. Source[i] = {CellRead(o + i - 1)}
      BY <1>7, <3>1
    <3> QED
      BY <2>2, <3>2, <3>3
  <2> QED
    BY <2>1, <2>2
<1>10. Copy!ToFile(k)
  <2>1. addr - job.offset = l
    BY <1>5, <1>6
  <2> QED
    BY <1>3, <1>5, <1>8, <1>9, <2>1 DEF Copy!ToFile
<1>11. k \in 0 .. Len(Source) - Done /\ (addr' = addr + n => addr' - job.offset = Done + k)
  <2>1. k \in 0 .. s - l /\ (o + l + k) - o = l + k
    BY <1>5
  <2> HIDE DEF Done
  <2> QED
    BY <1>5, <1>6, <1>7, <2>1
<1> QED
  BY <1>2, <1>10, <1>11

\* Every step of a command is a step of the copy, or leaves it alone.
LEMMA CopyStep ==
  ASSUME Inv, Inv', Placed, Placed', [Next]_vars
  PROVE  Copy!Next \/ UNCHANGED <<memory, out, pc # "idle", result, job.cmd # "download",
                                  job.offset, Source, Fits,
                                  IF pc = "idle" \/ ~Fits THEN 0 ELSE addr - job.offset>>
PROOF
<1>0. job.offset \in Nat /\ addr \in Nat
  <2>1. TypeOK
    BY DEF Inv
  <2>2. addr \in 0 .. Space - 1 /\ Space \in Nat
    BY <2>1, SpaceFacts DEF TypeOK
  <2> QED
    BY <2>1, <2>2, JobTyped
<1>1. CASE Begins
  BY <1>1, BeginsToCopy DEF Copy!Next
<1>2. CASE pc = "idle" /\ ~Begins
  <2>1. producer = "off"
    BY <1>2 DEF Inv, Feeding
  <2>2. UNCHANGED <<memory, out, pc, result, job>>
    BY <1>2, <2>1 DEF Next, Host, Goroutine, Begins, SetExtended, Open, NextChunk, Fill,
       FillEnds, Load, ReadBoot, SetCic, LookUp, ReadHeader, SetSave, Dump, DumpEnds, Fail,
       ReadFile, Written, Interrupt, Kill, vars, drive, command, transfer
  <2>3. UNCHANGED Fits
    BY <2>2, SameJob
  <2> QED
    BY <1>2, <2>2, <2>3, SameSource
<1>3. CASE pc # "idle" /\ Fits /\ (Load \/ Dump)
  <2>1. PICK n \in 0 .. Len(Source) - Done :
          /\ Copy!Copied(n)
          /\ \/ pc' = "idle"
             \/ pc' # "idle" /\ result' = result /\ addr' - job.offset = Done + n
    BY <1>3, LoadCopies, DumpCopies DEF Copy!Copied
  <2>2. UNCHANGED <<job, Fits>> /\ Source' = Source
    <3>1. UNCHANGED job /\ (job.cmd = "download" => memory' = memory)
      BY <1>3 DEF Load, Dump, Exit, command, drive, Inv, Where
    <3> QED
      BY <3>1, SameJob, SameSource
  <2>3. CASE pc' = "idle"
    <3>1. result' \in {"error", "interrupted", "killed"}
      BY <1>3, <2>3, EndsWhenCopied
    <3> QED
      BY <1>3, <2>1, <2>2, <2>3, <3>1 DEF Copy!Next, Copy!Stop, Done
  <2>4. CASE pc' # "idle"
    BY <1>3, <2>1, <2>2, <2>4 DEF Copy!Next, Copy!Copy, Done
  <2> QED
    BY <2>3, <2>4
<1>4. CASE pc # "idle" /\ Fits /\ ~Load /\ ~Dump
  <2>1. /\ UNCHANGED <<memory, out, job>>
        /\ pc' # "idle" => UNCHANGED <<addr, result>>
    BY <1>4, CopiesNothing
  <2>2. Source' = Source /\ UNCHANGED Fits
    BY <2>1, SameSource, SameJob
  <2>3. CASE pc' # "idle"
    BY <1>4, <2>1, <2>2, <2>3
  <2>4. CASE pc' = "idle" /\ result' = "ok"
    <3>1. Done = Len(Source)
      BY <1>4, <2>4, EndsWhenCopied
    <3> QED
      BY <1>4, <2>1, <2>2, <2>4, <3>1 DEF Copy!Next, Copy!Succeed, Done
  <2>5. CASE pc' = "idle" /\ result' # "ok"
    <3>1. result' \in {"error", "interrupted", "killed"}
      BY <1>4, <2>5, EndsWhenCopied
    <3>2. 0 \in 0 .. Len(Source) - Done
      BY <1>4, DoneFacts
    <3>3. Copy!Copied(0)
      <4>1. CASE job.cmd # "download"
        <5>1. memory' \in [0 .. MemorySize - 1 -> Cells]
          BY DEF Inv, TypeOK
        <5>2. \A a \in 0 .. MemorySize - 1 :
                ~(a \in job.offset + (addr - job.offset)
                          .. job.offset + (addr - job.offset) + 0 - 1)
          BY <1>0, TransferAssumption
        <5> QED
          BY <1>4, <2>1, <4>1, <5>1, <5>2 DEF Copy!Copied, Copy!ToMemory
      <4>2. CASE job.cmd = "download"
        <5>1. addr = job.offset + Len(out) /\ out \in Seq(Cells)
          BY <1>4, <4>2 DEF Inv, Where, Downloading, TypeOK
        <5>2. Len(out) \in Nat /\ addr - job.offset = Len(out)
          BY <1>0, <5>1, LenProperties
        <5> QED
          BY <1>4, <2>1, <4>2, <5>1, <5>2 DEF Copy!Copied, Copy!ToFile
      <4> QED
        BY <4>1, <4>2
    <3> QED
      BY <1>4, <2>1, <2>2, <2>5, <3>1, <3>2, <3>3 DEF Copy!Next, Copy!Stop, Done
  <2> QED
    BY <2>3, <2>4, <2>5
<1>5. CASE pc # "idle" /\ ~Fits /\ ~Begins
  <2>1. /\ UNCHANGED job
        /\ job.cmd # "download" => UNCHANGED out
        /\ job.cmd = "download" => UNCHANGED memory
        /\ pc' # "idle" => UNCHANGED result
    <3>1. CASE Load \/ Dump
      BY <1>5, <3>1 DEF Load, Dump, Exit, command, drive, Inv, Where
    <3>2. CASE ~Load /\ ~Dump
      BY <1>5, <3>2, CopiesNothing
    <3> QED
      BY <3>1, <3>2
  <2>2. Source' = Source /\ UNCHANGED Fits
    BY <2>1, SameSource, SameJob
  <2>3. memory' \in [0 .. MemorySize - 1 -> Cells] /\ out' \in Seq(Cells)
    BY DEF Inv, TypeOK
  <2>4. pc' = "idle" => result' \in {"ok", "error", "interrupted", "killed"}
    BY <1>5, EndsWhenCopied
  <2> QED
    BY <1>5, <2>1, <2>2, <2>3, <2>4 DEF Copy!Next, Copy!Stray
<1> QED
  BY <1>1, <1>2, <1>3, <1>4, <1>5 DEF Begins, Upload, Download, Cic, Savetype, Extended, Start

\* Where the copy stands is known in every state.
LEMMA PlacedAlways == Spec => []Placed
PROOF
<1>1. Init => Placed
  BY DEF Init, Placed, Settling
<1>2. Inv /\ Placed /\ [Next]_vars => Placed'
  BY KeepsPlaced
<1> QED
  BY <1>1, <1>2, Invariance, PTL DEF Spec

\* In every behaviour, whatever fails, is interrupted or killed, and as far as the bank has
\* room, the units of an upload or a download go to their places in order and each of them
\* once, nothing else of the memory changes, in any step of any command, and a transfer
\* succeeds only with all of them copied.
THEOREM CopyImplemented == Spec => CopySpec
PROOF
<1>1. Init => Copy!Init
  <2> SUFFICES ASSUME Init PROVE Copy!Init
    OBVIOUS
  <2>1. Blank \in Cells
    BY DEF Blank, Cells
  <2>2. Source = <<>>
    BY DEF Init, NoJob, Source
  <2>3. Fits
    <3>1. PICK p \in Nat \ {0} : p = Pad
      BY TransferAssumption
    <3>2. 0 % p = 0
      BY <3>1
    <3>3. PadUp(0) = 0 /\ 0 <= MemorySize
      BY <3>1, <3>2, PadUpFacts, SpaceFacts
    <3> QED
      BY <3>3 DEF Init, NoJob, Fits, Extent
  <2> QED
    BY <2>1, <2>2, <2>3 DEF Init, Copy!Init
<1>2. Inv /\ Inv' /\ Placed /\ Placed' /\ [Next]_vars
        => [Copy!Next]_<<memory, out, pc # "idle", result, job.cmd # "download", job.offset,
                         Source, Fits,
                         IF pc = "idle" \/ ~Fits THEN 0 ELSE addr - job.offset>>
  BY CopyStep
<1> QED
  BY <1>1, <1>2, Invariance, PlacedAlways, PTL DEF Spec, CopySpec, Copy!Spec

------------------------------------------------------------------------------
(* Every command comes to an end *)

\* What a command has still to do, part by part.
Stage ==
  CASE pc = "extended" -> 9
    [] pc = "open" -> 8
    [] pc \in {"head", "fill", "dump"} -> 7
    [] pc = "boot" -> 6
    [] pc = "cic" -> 5
    [] pc = "lookup" -> 4
    [] pc = "header" -> 3
    [] pc = "save" -> 2
    [] OTHER -> 0

\* And the goroutine with what it has read of the file.
ProducerStage ==
  CASE producer = "write" /\ end = "more" -> 4
    [] producer = "read" -> 3
    [] producer = "write" /\ end # "more" -> 2
    [] producer = "closed" -> 1
    [] OTHER -> 0

Room == IF pc = "fill" THEN Wanted - Len(buf) ELSE 0
Measure ==
  <<Stage, left, IF pc = "head" THEN 1 ELSE 0, Room, job.file.length - pos, ProducerStage>>

\* The uploader only waits for a goroutine that is there, and never for more than a chunk.
Waiting ==
  /\ pc \in {"head", "fill"} => producer # "off"
  /\ IF pc = "fill" THEN left > 0 /\ Len(buf) <= Wanted ELSE buf = <<>>

\* The measure counts down.
LEMMA MeasureTyped == Inv /\ Waiting => Measure \in Measures(6)
PROOF
<1> SUFFICES ASSUME Inv, Waiting PROVE Measure \in Measures(6)
  OBVIOUS
<1>0. TypeOK
  BY DEF Inv
<1>1. Stage \in Nat /\ ProducerStage \in Nat /\ (IF pc = "head" THEN 1 ELSE 0) \in Nat
  BY DEF Stage, ProducerStage
<1>2. left \in Nat
  BY <1>0 DEF TypeOK
<1>3. job.file.length - pos \in Nat
  <2>1. job.file.length \in Nat /\ pos \in Nat /\ pos <= job.file.length
    BY <1>0, JobTyped DEF Inv, TypeOK, Feeding
  <2> QED
    BY <2>1
<1>4. Room \in Nat
  <2>1. Len(buf) \in Nat /\ Wanted \in Nat
    BY <1>0, <1>2, WantedFacts, LenProperties DEF TypeOK
  <2> QED
    BY <2>1 DEF Room, Waiting
<1> HIDE DEF Stage, ProducerStage, Room
<1> QED
  BY <1>1, <1>2, <1>3, <1>4 DEF Measures, Measure

\* The goroutine is there from the opening of the file to the end of the loop.
LEMMA KeepsWaiting ==
  ASSUME Inv, Waiting, [Next]_vars
  PROVE  Waiting'
PROOF
<1>0. TypeOK
  BY DEF Inv
<1>1. CASE pc' \notin {"head", "fill"}
  <2>1. CASE pc = "fill"
    BY <1>1, <2>1 DEF Next, Host, Goroutine, Upload, Download, Cic, Savetype, Extended, Start,
       SetExtended, Open, NextChunk, Fill, FillEnds, Load, ReadBoot, SetCic, LookUp, ReadHeader,
       SetSave, Dump, DumpEnds, Fail, ReadFile, Written, Interrupt, Kill, vars, Exit, Proceed,
       command, Waiting
  <2>2. CASE pc # "fill"
    <3>1. buf' = buf \/ buf' = <<>>
      <4>1. CASE Begins
        BY <4>1, BegunFacts DEF Start
      <4>2. CASE ~Begins
        BY <2>2, <4>2 DEF Begins, Next, Host, Goroutine, SetExtended, Open, NextChunk, Fill,
           FillEnds, Load, ReadBoot, SetCic, LookUp, ReadHeader, SetSave, Dump, DumpEnds, Fail,
           ReadFile, Written, Interrupt, Kill, vars, Exit, Proceed, transfer
      <4> QED
        BY <4>1, <4>2
    <3> QED
      BY <1>1, <2>2, <3>1 DEF Waiting
  <2> QED
    BY <2>1, <2>2
<1>2. CASE pc' \in {"head", "fill"} /\ (Begins \/ Open \/ NextChunk \/ Load)
  <2>1. ~Begins
    BY <1>2, BegunFacts DEF Begun
  <2>2. CASE Open
    BY <2>2 DEF Open, Waiting, transfer
  <2>3. CASE NextChunk
    <3>1. pc = "head" /\ pc' = "fill" /\ left > 0 /\ UNCHANGED <<left, buf, producer>>
      BY <1>2, <2>3 DEF NextChunk, Exit, Proceed, AfterUpload, AfterCic, goroutine
    <3>2. buf = <<>> /\ Len(buf) = 0
      BY <3>1 DEF Waiting
    <3>3. Wanted' = Wanted /\ Wanted \in Nat
      BY <1>0, <3>1, WantedFacts DEF Wanted, TypeOK
    <3> QED
      BY <3>1, <3>2, <3>3 DEF Waiting
  <2>4. CASE Load
    BY <1>2, <2>4 DEF Load, Exit, goroutine, Waiting
  <2> QED
    BY <1>2, <2>1, <2>2, <2>3, <2>4
<1>3. CASE pc' \in {"head", "fill"} /\ Fill
  <2>1. pc = "fill" /\ pc' = pc /\ left' = left /\ producer' = producer
    BY <1>3 DEF Fill
  <2>2. Len(buf') <= Wanted
    <3>1. Len(buf) \in Nat /\ Wanted \in Nat /\ Len(block) \in Nat /\ Len(buf) < Wanted
      BY <1>0, <1>3, WantedFacts, LenProperties DEF TypeOK, Fill
    <3>2. Taken \in Nat /\ Len(buf') = Len(buf) + Taken /\ Len(buf) + Taken <= Wanted
      BY <1>0, <1>3, FillFacts
    <3> QED
      BY <3>1, <3>2
  <2>3. Wanted' = Wanted
    BY <2>1 DEF Wanted
  <2> QED
    BY <2>1, <2>2, <2>3 DEF Waiting
<1>4. CASE pc' \in {"head", "fill"} /\ ~(Begins \/ Open \/ NextChunk \/ Load \/ Fill)
  <2>1. UNCHANGED <<pc, left, buf>> /\ (producer # "off" => producer' # "off")
    BY <1>4 DEF Next, Host, Goroutine, Begins, SetExtended, FillEnds, ReadBoot, SetCic, LookUp,
       ReadHeader, SetSave, Dump, DumpEnds, Fail, ReadFile, Written, Interrupt, Kill, vars, Exit,
       Proceed, AfterCic, AfterUpload, transfer, goroutine
  <2>2. Wanted' = Wanted
    BY <2>1 DEF Wanted
  <2> QED
    BY <2>1, <2>2 DEF Waiting
<1> QED
  BY <1>1, <1>2, <1>3, <1>4

\* One part of the measure gets smaller, and those before it stay.
Lowers ==
  \/ Stage' < Stage
  \/ Stage' = Stage /\ left' < left
  \/ Stage' = Stage /\ left' = left /\ pc = "head" /\ pc' # "head"
  \/ UNCHANGED <<pc, left>> /\ Room' < Room
  \/ UNCHANGED <<pc, left, buf, job>> /\ pos < pos' /\ pos' <= job.file.length
  \/ UNCHANGED <<pc, left, buf, job, pos>> /\ ProducerStage' < ProducerStage

\* The measure follows its parts.
LEMMA LowersMeasure ==
  ASSUME TypeOK, TypeOK', Lowers
  PROVE  Lower(Measure', Measure)
PROOF
<1> DEFINE m == Measure'
           n == Measure
           head == IF pc = "head" THEN 1 ELSE 0
<1>1. /\ DOMAIN n = 1 .. 6
      /\ n[1] = Stage /\ n[2] = left /\ n[3] = head /\ n[4] = Room
      /\ n[5] = job.file.length - pos /\ n[6] = ProducerStage
      /\ m[1] = Stage' /\ m[2] = left' /\ m[3] = head' /\ m[4] = Room'
      /\ m[5] = (job.file.length - pos)' /\ m[6] = ProducerStage'
  BY DEF Measure
<1>2. SUFFICES \E i \in 1 .. 6 : m[i] < n[i] /\ \A j \in 1 .. i - 1 : m[j] = n[j]
  BY <1>1 DEF Lower
<1>3. pc' = pc => Stage' = Stage /\ head' = head
  BY DEF Stage
<1>4. UNCHANGED <<pc, left, buf>> => Room' = Room
  BY DEF Room, Wanted
<1>5. {job.file.length, pos, pos'} \subseteq Nat
  BY JobTyped DEF TypeOK
<1> HIDE DEF m, n
<1>6. CASE Stage' < Stage
  BY <1>1, <1>6
<1>7. CASE Stage' = Stage /\ left' < left
  <2>1. m[2] < n[2] /\ \A j \in 1 .. 2 - 1 : m[j] = n[j]
    BY <1>1, <1>7
  <2> QED
    BY <2>1
<1>8. CASE Stage' = Stage /\ left' = left /\ pc = "head" /\ pc' # "head"
  <2>1. m[3] < n[3] /\ \A j \in 1 .. 3 - 1 : m[j] = n[j]
    BY <1>1, <1>8
  <2> QED
    BY <2>1
<1>9. CASE UNCHANGED <<pc, left>> /\ Room' < Room
  <2>1. m[4] < n[4] /\ \A j \in 1 .. 4 - 1 : m[j] = n[j]
    BY <1>1, <1>3, <1>9
  <2> QED
    BY <2>1
<1>10. CASE UNCHANGED <<pc, left, buf, job>> /\ pos < pos' /\ pos' <= job.file.length
  <2>1. (job.file.length - pos)' = job.file.length - pos'
    BY <1>10
  <2>2. m[5] < n[5]
    BY <1>1, <1>5, <1>10, <2>1
  <2>3. m[5] < n[5] /\ \A j \in 1 .. 5 - 1 : m[j] = n[j]
    BY <1>1, <1>3, <1>4, <1>10, <2>2
  <2> QED
    BY <2>3
<1>11. CASE UNCHANGED <<pc, left, buf, job, pos>> /\ ProducerStage' < ProducerStage
  <2>1. m[6] < n[6] /\ \A j \in 1 .. 6 - 1 : m[j] = n[j]
    BY <1>1, <1>3, <1>4, <1>11
  <2> QED
    BY <2>1
<1> QED
  BY <1>6, <1>7, <1>8, <1>9, <1>10, <1>11 DEF Lowers

\* A command that ends has nothing left to do.
LEMMA ExitLowers ==
  ASSUME NEW r, Exit(r), TypeOK, pc # "idle"
  PROVE  Stage' < Stage
  BY DEF Exit, Stage, TypeOK

\* And a part of an upload that is over leaves less to do.
LEMMA ProceedLowers ==
  ASSUME TypeOK, \/ pc \in {"head", "fill"} /\ Proceed(AfterUpload)
                 \/ pc = "cic" /\ Proceed(AfterCic)
  PROVE  Stage' < Stage
PROOF
<1>1. AfterCic \in {"lookup", "done"} /\ AfterUpload \in {"boot", "lookup", "done"}
  BY DEF AfterCic, AfterUpload
<1>2. \/ pc' = "idle"
      \/ pc' = "lookup" /\ pc \in {"head", "fill", "cic"}
      \/ pc' = "boot" /\ pc \in {"head", "fill"}
  BY <1>1 DEF Proceed, Exit
<1>3. pc \in {"head", "fill", "cic"}
  OBVIOUS
<1> QED
  BY <1>2, <1>3 DEF Stage

\* Each step of the host lowers the measure.
LEMMA HostLowers ==
  ASSUME Inv, Waiting, Host
  PROVE  Lowers
PROOF
<1>0. TypeOK
  BY DEF Inv
<1>1. CASE SetExtended
  <2>1. pc = "extended" /\ (pc' = "open" \/ pc' = "idle")
    BY <1>1 DEF SetExtended, Exit
  <2> QED
    BY <2>1 DEF Stage, Lowers
<1>2. CASE Open
  <2>1. pc = "open" /\ pc' = "head"
    BY <1>2 DEF Open
  <2> QED
    BY <2>1 DEF Stage, Lowers
<1>3. CASE NextChunk
  <2>1. pc = "head" /\ pc # "idle"
    BY <1>3 DEF NextChunk
  <2>2. CASE pc' = "fill" /\ left' = left
    <3>1. Stage' = Stage
      BY <2>1, <2>2 DEF Stage
    <3> QED
      BY <2>1, <2>2, <3>1 DEF Lowers
  <2>3. CASE Exit("interrupted")
    BY <1>0, <2>1, <2>3, ExitLowers DEF Lowers
  <2>4. CASE Proceed(AfterUpload)
    BY <1>0, <2>1, <2>4, ProceedLowers DEF Lowers
  <2> QED
    BY <1>3, <2>2, <2>3, <2>4 DEF NextChunk
<1>4. CASE Fill
  <2>1. pc = "fill" /\ UNCHANGED <<pc, left>> /\ Len(buf) < Wanted /\ Wanted' = Wanted
    BY <1>4 DEF Fill, Wanted
  <2>2. Taken \in Nat \ {0} /\ Len(buf') = Len(buf) + Taken
    BY <1>0, <1>4, FillFacts
  <2>3. Len(buf) \in Nat /\ Wanted \in Nat
    BY <1>0, WantedFacts, LenProperties DEF TypeOK
  <2>4. Room = Wanted - Len(buf) /\ Room' = Wanted - Len(buf')
    BY <2>1 DEF Room
  <2>5. Room' < Room
    BY <2>2, <2>3, <2>4
  <2> QED
    BY <2>1, <2>5 DEF Lowers
<1>5. CASE FillEnds
  <2>1. pc = "fill" /\ (Proceed(AfterUpload) \/ Exit("error"))
    BY <1>5 DEF FillEnds
  <2> QED
    BY <1>0, <2>1, ExitLowers, ProceedLowers DEF Lowers
<1>6. CASE Load
  <2>1. pc = "fill" /\ Len(buf) = Wanted
    BY <1>6 DEF Load
  <2>2. CASE \E n \in 0 .. Len(Padded) : Exit("error")
    BY <1>0, <2>1, <2>2, ExitLowers DEF Lowers
  <2>3. CASE pc' = "head" /\ left' = IF left > Len(Padded) THEN left - Len(Padded) ELSE 0
    <3>1. left > 0 /\ Len(Padded) \in Nat /\ Len(buf) <= Len(Padded)
      <4>1. Len(buf) \in Nat /\ Len(Padded) = PadUp(Len(buf))
        BY <1>0, PaddedFacts
      <4> QED
        BY <2>1, <4>1, PadUpFacts DEF Waiting
    <3>2. Wanted \in Nat \ {0} /\ left \in Nat
      BY <1>0, <3>1, WantedFacts DEF TypeOK
    <3>3. left' < left
      BY <2>1, <2>3, <3>1, <3>2
    <3>4. Stage' = Stage
      BY <2>1, <2>3 DEF Stage
    <3> QED
      BY <3>3, <3>4 DEF Lowers
  <2> QED
    BY <1>6, <2>2, <2>3 DEF Load
<1>7. CASE ReadBoot
  <2>1. pc = "boot" /\ (pc' = "cic" \/ pc' = "idle")
    BY <1>7 DEF ReadBoot, Exit
  <2> QED
    BY <2>1 DEF Stage, Lowers
<1>8. CASE SetCic
  <2>1. pc = "cic" /\ (Proceed(AfterCic) \/ Exit("error"))
    BY <1>8 DEF SetCic
  <2> QED
    BY <1>0, <2>1, ExitLowers, ProceedLowers DEF Lowers
<1>9. CASE LookUp
  <2>1. pc = "lookup" /\ pc' \in {"save", "header"}
    BY <1>9 DEF LookUp
  <2> QED
    BY <2>1 DEF Stage, Lowers
<1>10. CASE ReadHeader
  <2>1. pc = "header" /\ pc' = "save"
    BY <1>10 DEF ReadHeader
  <2> QED
    BY <2>1 DEF Stage, Lowers
<1>11. CASE SetSave
  <2>1. pc = "save" /\ pc' = "idle"
    BY <1>11 DEF SetSave, Exit
  <2> QED
    BY <2>1 DEF Stage, Lowers
<1>12. CASE Dump
  <2>1. pc = "dump" /\ left > 0
    BY <1>12 DEF Dump
  <2>2. Exit("error") \/ (pc' = pc /\ left' = left - Wanted)
    BY <1>12 DEF Dump
  <2>3. CASE Exit("error")
    BY <1>0, <2>1, <2>3, ExitLowers DEF Lowers
  <2>4. CASE pc' = pc /\ left' = left - Wanted
    <3>1. Wanted \in Nat \ {0} /\ left \in Nat
      BY <1>0, <2>1, WantedFacts DEF TypeOK
    <3>2. Stage' = Stage /\ left' < left
      BY <2>4, <3>1 DEF Stage
    <3> QED
      BY <3>2 DEF Lowers
  <2> QED
    BY <2>2, <2>3, <2>4
<1>13. CASE DumpEnds
  <2>1. pc = "dump" /\ pc' = "idle"
    BY <1>13 DEF DumpEnds, Exit
  <2> QED
    BY <2>1 DEF Stage, Lowers
<1>14. CASE Fail
  <2>1. pc \in {"extended", "boot", "cic", "save"} /\ pc' = "idle"
    BY <1>14 DEF Fail, Exit
  <2> QED
    BY <2>1 DEF Stage, Lowers
<1> QED
  BY <1>1, <1>2, <1>3, <1>4, <1>5, <1>6, <1>7, <1>8, <1>9, <1>10, <1>11, <1>12, <1>13, <1>14
     DEF Host

\* Each step of the goroutine does: it gets on in the file, or comes to its end.
LEMMA GoroutineLowers ==
  ASSUME Inv, Goroutine
  PROVE  Lowers
PROOF
<1>0. TypeOK
  BY DEF Inv
<1>1. UNCHANGED <<pc, left, buf, job>>
  BY DEF Goroutine, ReadFile, Written, command, transfer
<1>2. CASE Written
  <2>1. pos' = pos /\ end' = end /\ producer = "write"
        /\ producer' = IF end = "more" THEN "read" ELSE "closed"
    BY <1>2 DEF Written
  <2>2. ProducerStage' < ProducerStage
    BY <1>0, <2>1 DEF ProducerStage, TypeOK
  <2> QED
    BY <1>1, <2>1, <2>2 DEF Lowers
<1>3. CASE ReadFile
  <2>1. producer = "read" /\ producer' = "write"
    BY <1>3 DEF ReadFile
  <2>2. pos \in Nat /\ pos <= job.file.length /\ Block \in Nat \ {0}
    BY <1>0, TransferAssumption DEF TypeOK, Inv, Feeding
  <2>3. CASE pos' = LastRead /\ LastRead # pos
    <3>1. pos < pos' /\ pos' <= job.file.length
      BY <1>0, <2>2, <2>3, ReadFacts
    <3> QED
      BY <1>1, <3>1 DEF Lowers
  <2>4. CASE pos' = pos /\ end' # "more"
    <3>1. ProducerStage' < ProducerStage
      BY <2>1, <2>4 DEF ProducerStage
    <3> QED
      BY <1>1, <2>4, <3>1 DEF Lowers
  <2>5. \/ pos' = LastRead /\ (LastRead = pos => end' # "more")
        \/ pos' = pos /\ end' = "error"
    <3>1. LastRead = pos => LastRead # pos + Block
      BY <2>2
    <3> QED
      BY <1>3, <3>1, ReadStep
  <2> QED
    BY <2>3, <2>4, <2>5
<1> QED
  BY <1>2, <1>3 DEF Goroutine

\* Cancelling a transfer does not make it longer.
LEMMA InterruptKeeps ==
  ASSUME Interrupt
  PROVE  Measure' = Measure
PROOF
<1>1. UNCHANGED <<pc, left, buf, job, pos, producer, end>>
  BY DEF Interrupt, command, goroutine
<1> QED
  BY <1>1 DEF Measure, Stage, Room, Wanted, ProducerStage

(***************************************************************************)
(* Every step that CmdUpload, CmdDownload or the goroutine makes brings    *)
(* the command nearer to its end in a well-founded order, which Ctrl+C     *)
(* does not set back: a command is never at work for ever.                 *)
(***************************************************************************)
THEOREM CommandsAdvance ==
  Spec => /\ [](Measure \in Measures(6) /\ Waiting)
          /\ [][/\ Host \/ Goroutine => Lower(Measure', Measure)
                /\ Interrupt => Measure' = Measure]_vars
PROOF
<1> DEFINE Counts == Measure \in Measures(6) /\ Waiting
           Advance == /\ Host \/ Goroutine => Lower(Measure', Measure)
                      /\ Interrupt => Measure' = Measure
<1>1. Init => Waiting
  BY DEF Init, Waiting
<1>2. Inv /\ Waiting /\ [Next]_vars => Waiting'
  BY KeepsWaiting
<1>3. Inv /\ Waiting => Counts
  BY MeasureTyped
<1>4. Inv /\ Inv' /\ Waiting /\ [Next]_vars => [Advance]_vars
  <2> SUFFICES ASSUME Inv, Inv', Waiting PROVE Advance
    OBVIOUS
  <2>1. TypeOK /\ TypeOK'
    BY DEF Inv
  <2> QED
    BY <2>1, HostLowers, GoroutineLowers, LowersMeasure, InterruptKeeps
<1> HIDE DEF Counts, Advance
<1>5. Spec => []Counts /\ [][Advance]_vars
  BY <1>1, <1>2, <1>3, <1>4, Invariance, PTL DEF Spec
<1> QED
  BY <1>5 DEF Counts, Advance
==============================================================================
