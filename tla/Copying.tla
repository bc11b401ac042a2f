-------------------------------- MODULE Copying -------------------------------
(***************************************************************************)
(* What a transfer promises, whatever fails or is interrupted: the units   *)
(* of its source are copied in order, from the first on and each of them   *)
(* once, to the memory of the 64drive or to a file, and nothing else       *)
(* changes.  It may stop between any two units, even in a step that copied *)
(* some, and it succeeds only when all of them are copied.  A transfer that *)
(* leaves the memory promises no more than to leave the file alone, or the *)
(* memory if it is the source.                                             *)
(***************************************************************************)
EXTENDS Naturals, Sequences

CONSTANTS
  Places,    \* addresses of the memory
  Cells,     \* what a place may hold
  Swapped(_) \* a unit in the other byte order

VARIABLES
  memory, out,
  running, result,
  toMemory, at, \* the target, or the part of the memory that is the source
  source,       \* the units that may be copied to each place of the target
  inside,       \* the memory has room for all of it
  done          \* how many are copied

Init ==
  /\ memory \in [Places -> Cells] /\ out = <<>>
  /\ running = FALSE /\ result = "none"
  /\ source = <<>> /\ inside = TRUE /\ done = 0

\* Data that comes from elsewhere, or the memory itself in one of the byte orders.
Begin ==
  /\ ~running /\ running' = TRUE /\ result' = "none"
  /\ source' \in Seq(SUBSET Cells) /\ done' = 0
  /\ at' \in Nat /\ inside' \in BOOLEAN
  /\ inside' => at' .. at' + Len(source') - 1 \subseteq Places
  /\ \/ toMemory'
     \/ ~inside'
     \/ /\ ~toMemory'
        /\ \/ \A i \in 1 .. Len(source') : source'[i] = {memory[at' + i - 1]}
           \/ \A i \in 1 .. Len(source') : source'[i] = {Swapped(memory[at' + i - 1])}
  /\ out' = <<>> /\ UNCHANGED memory

ToMemory(n) ==
  /\ toMemory /\ UNCHANGED out
  /\ memory' \in [Places -> Cells]
  /\ \A a \in Places :
       IF a \in at + done .. at + done + n - 1
       THEN memory'[a] \in source[a - at + 1]
       ELSE memory'[a] = memory[a]

ToFile(n) ==
  /\ ~toMemory /\ UNCHANGED memory
  /\ out' \in Seq(Cells) /\ Len(out') = Len(out) + n
  /\ \A i \in 1 .. Len(out') : IF i <= done THEN out'[i] = out[i] ELSE out'[i] \in source[i]

\* The next n units of the source.
Copied(n) == ToMemory(n) \/ ToFile(n)

Copy ==
  /\ running /\ inside
  /\ \E n \in 0 .. Len(source) - done : Copied(n) /\ done' = done + n
  /\ UNCHANGED <<running, result, toMemory, at, source, inside>>

Stop ==
  /\ running /\ inside /\ running' = FALSE /\ result' \in {"error", "interrupted", "killed"}
  /\ \E n \in 0 .. Len(source) - done : Copied(n)
  /\ done' = 0 /\ UNCHANGED <<toMemory, at, source, inside>>

Succeed ==
  /\ running /\ inside /\ done = Len(source)
  /\ running' = FALSE /\ result' = "ok" /\ done' = 0
  /\ UNCHANGED <<memory, out, toMemory, at, source, inside>>

\* A step of a transfer that leaves the memory.
Stray ==
  /\ running /\ ~inside
  /\ \/ toMemory /\ memory' \in [Places -> Cells] /\ UNCHANGED out
     \/ ~toMemory /\ out' \in Seq(Cells) /\ UNCHANGED memory
  /\ \/ UNCHANGED <<running, result>>
     \/ running' = FALSE /\ result' \in {"ok", "error", "interrupted", "killed"}
  /\ UNCHANGED <<toMemory, at, source, inside, done>>

Next == Begin \/ Copy \/ Stop \/ Succeed \/ Stray

Spec == Init /\ [][Next]_<<memory, out, running, result, toMemory, at, source, inside, done>>
==============================================================================
