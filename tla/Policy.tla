--------------------------------- MODULE Policy ---------------------------------
(***************************************************************************)
(* Who may do what: a stored policy of one role, merged over the defaults, *)
(* as the workers of the API remember it.  Each worker keeps what it read  *)
(* for a while; an edit clears the memory of the worker that made it, and  *)
(* of no other.                                                            *)
(* Code: camera-mgmt/backend/services/policy.py.                           *)
(***************************************************************************)
EXTENDS Naturals

CONSTANTS Servers,        \* workers of the API
          Capabilities,   \* what the build knows of
          Withdrawn,      \* what a former build knew of and may have stored
          Defaults,       \* what the role may do when nothing is stored
          KeptFor,        \* how long a worker remembers
          PolicyBudgets   \* what may happen

Known == Capabilities \cup Withdrawn

ASSUME PolicyAssumption == Defaults \subseteq Capabilities /\ KeptFor \in Nat \ {0}

VARIABLES
  stored,     \* the role's row: what it says of each capability, <<>> without a row
  memory,     \* what a worker remembers, and for how long still
  reading,    \* what a worker's question to the database brought
  editing,    \* the edit a worker has committed and not yet cleared its memory after
  ruled,      \* history: for how long the row has not granted a capability
  own,        \* history: the last edit a worker made
  raced,      \* history: it remembers what it had asked for before that
  policyBudget

policyVars == <<stored, memory, reading, editing, ruled, own, raced, policyBudget>>

SpendPolicy(c) == policyBudget[c] > 0 /\ policyBudget' = [policyBudget EXCEPT ![c] = @ - 1]

(* What is stored of capabilities the build knows, over the defaults.      *)
Merged(row) == {c \in Capabilities : IF c \in DOMAIN row THEN row[c] ELSE c \in Defaults}

(* A row is [of: which edit wrote it, says: what of each capability].      *)
NoMemory == [can |-> {}, of |-> 0, left |-> 0, guess |-> FALSE]
NotReading == [st |-> "no", can |-> {}, of |-> 0]
Remembers(w) == memory[w].left > 0

(* A worker that remembers nothing asks the database, and remembers the    *)
(* answer from when it comes; without one it takes the defaults for it.    *)
Inquire(w) ==
  /\ ~Remembers(w) /\ reading[w] = NotReading /\ SpendPolicy("ask")
  /\ reading' = [reading EXCEPT ![w] = [NotReading EXCEPT !.st = "asked"]]
  /\ UNCHANGED <<stored, memory, editing, ruled, own, raced>>
Answer(w) ==
  /\ reading[w].st = "asked"
  /\ \/ reading' = [reading EXCEPT ![w] = [st |-> "told", can |-> Merged(stored.says), of |-> stored.of]] /\ UNCHANGED policyBudget
     \/ SpendPolicy("fail") /\ reading' = [reading EXCEPT ![w] = [st |-> "failed", can |-> Merged(<<>>), of |-> stored.of]]
  /\ UNCHANGED <<stored, memory, editing, ruled, own, raced>>
Keep(w) ==
  /\ reading[w].st \in {"told", "failed"} /\ reading' = [reading EXCEPT ![w] = NotReading]
  /\ memory' = [memory EXCEPT ![w] = [can |-> reading[w].can, of |-> reading[w].of, left |-> KeptFor,
                                      guess |-> reading[w].st = "failed"]]
  /\ raced' = [raced EXCEPT ![w] = reading[w].of < own[w]]
  /\ UNCHANGED <<stored, editing, ruled, own, policyBudget>>

(* An edit writes the row whole: what it does not speak of goes back to    *)
(* its default.  Then it clears the memory of its own worker.              *)
RowOf(edit) == [c \in Capabilities |-> IF c \in DOMAIN edit THEN edit[c] ELSE c \in Defaults]
Edit(w, edit) ==
  /\ editing[w] = 0 /\ SpendPolicy("edit")
  /\ stored' = [of |-> stored.of + 1, says |-> RowOf(edit)]
  /\ editing' = [editing EXCEPT ![w] = stored.of + 1]
  /\ ruled' = [c \in Capabilities |-> IF c \in Merged(RowOf(edit)) THEN 0 ELSE ruled[c]]
  /\ UNCHANGED <<memory, reading, own, raced>>
(* Mutant: the memory is left to run out.                                  *)
Unforgotten(w) == memory
Forgotten(w) == [memory EXCEPT ![w] = NoMemory]
Clear(w) ==
  /\ editing[w] # 0 /\ editing' = [editing EXCEPT ![w] = 0] /\ own' = [own EXCEPT ![w] = editing[w]]
  /\ memory' = Forgotten(w)
  /\ UNCHANGED <<stored, reading, ruled, raced, policyBudget>>

(* Questions and edits take no time to speak of; memories run out.         *)
PolicyTicks ==
  /\ \A w \in Servers : reading[w] = NotReading /\ editing[w] = 0
  /\ \E w \in Servers : Remembers(w)
  /\ memory' = [w \in Servers |-> IF memory[w].left <= 1 THEN NoMemory ELSE [memory[w] EXCEPT !.left = @ - 1]]
  /\ ruled' = [c \in Capabilities |->
                 IF c \in Merged(stored.says) THEN 0 ELSE IF ruled[c] > KeptFor THEN ruled[c] ELSE ruled[c] + 1]
  /\ UNCHANGED <<stored, reading, editing, own, raced, policyBudget>>

PolicyInit ==
  /\ \E says \in {<<>>, [c \in Known |-> c \notin Defaults]} : stored = [of |-> 0, says |-> says]
  /\ memory = [w \in Servers |-> NoMemory] /\ reading = [w \in Servers |-> NotReading]
  /\ editing = [w \in Servers |-> 0]
  /\ ruled = [c \in Capabilities |-> IF c \in Merged(stored.says) THEN 0 ELSE KeptFor]
  /\ own = [w \in Servers |-> 0] /\ raced = [w \in Servers |-> FALSE]
  /\ policyBudget \in PolicyBudgets

PolicyNext ==
  \/ \E w \in Servers : Inquire(w) \/ Answer(w) \/ Keep(w) \/ Clear(w)
  \/ \E w \in Servers, part \in SUBSET Capabilities : \E edit \in [part -> BOOLEAN] : Edit(w, edit)
  \/ PolicyTicks

-----------------------------------------------------------------------------
(* allowed: of what the worker remembers; admins, services and developers  *)
(* are asked nothing.                                                      *)
Allows(w, c) == Remembers(w) /\ c \in memory[w].can

PolicyTypeOK ==
  /\ \A w \in Servers : memory[w].can \subseteq Capabilities /\ memory[w].left \in 0..KeptFor
  /\ \A w \in Servers : reading[w].can \subseteq Capabilities /\ reading[w].st \in {"no", "asked", "told", "failed"}

(* What has been taken away is taken away everywhere before long - but on  *)
(* a worker that got no answer and goes by the defaults.                   *)
RevokedSoon ==
  \A w \in Servers, c \in Capabilities :
    Allows(w, c) => ruled[c] < KeptFor \/ (memory[w].guess /\ c \in Defaults)

(* The worker that made an edit goes by it, unless it had asked before.    *)
EditSeen == \A w \in Servers : Remembers(w) => memory[w].of >= own[w] \/ raced[w]
================================================================================
