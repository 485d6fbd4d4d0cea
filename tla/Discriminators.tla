--------------------------- MODULE Discriminators ---------------------------
(***************************************************************************)
(* The IDL post-processing script idl/src/scripts/update-discriminators.ts.*)
(* It imports the IDL that `anchor build` generates, walks its            *)
(* instructions and then its accounts, replaces each entry's Anchor       *)
(* discriminator by the value listed for its name in a hand-written       *)
(* table, throws on a name the table does not list, and prints the IDL as *)
(* JSON.                                                                   *)
(*                                                                         *)
(* An IDL entry is a record [name, discriminator].  A discriminator is a  *)
(* record too: [bytes |-> s] for a byte array s, [sighash |-> ..] for the *)
(* hash Anchor generated, [jsFunction |-> key] for a function inherited   *)
(* from Object.prototype.  The script is synchronous and runs once; `pc`  *)
(* is its position: one step per loop iteration, as the code writes them. *)
(***************************************************************************)
EXTENDS Integers, Sequences, SequencesExt, Functions

CONSTANTS
  IdlInstructions,  \* names an instruction of the generated IDL may have
  IdlAccounts,      \* names an account of the generated IDL may have
  MaxEntries        \* bound on the entries of each list

ASSUME MaxEntries \in Nat

VARIABLES
  ixs,     \* idl.instructions
  accs,    \* idl.accounts
  pc,      \* "instructions", "accounts", "printed" or "threw"
  i,       \* position of the current loop, 1-based
  out      \* what console.log printed, or NoOutput

vars == <<ixs, accs, pc, i, out>>

\* instructionValues: api/src/instruction.rs, one byte per instruction
instructionValues ==
  ("init_vm" :> <<1>>) @@ ("init_memory" :> <<2>>) @@ ("init_storage" :> <<3>>)
  @@ ("init_relay" :> <<4>>) @@ ("init_nonce" :> <<5>>) @@ ("init_timelock" :> <<6>>)
  @@ ("init_unlock" :> <<7>>) @@ ("exec" :> <<8>>) @@ ("compress" :> <<9>>)
  @@ ("decompress" :> <<10>>) @@ ("resize_memory" :> <<11>>) @@ ("snapshot" :> <<12>>)
  @@ ("deposit" :> <<13>>) @@ ("withdraw" :> <<14>>) @@ ("unlock" :> <<15>>)

\* accountValues: api/src/state.rs, eight bytes per account type
AccountTag(b) == <<b, 0, 0, 0, 0, 0, 0, 0>>

accountValues ==
  ("CodeVmAccount" :> AccountTag(1)) @@ ("MemoryAccount" :> AccountTag(2))
  @@ ("StorageAccount" :> AccountTag(3)) @@ ("RelayAccount" :> AccountTag(4))
  @@ ("UnlockStateAccount" :> AccountTag(5))
  @@ ("WithdrawReceiptAccount" :> AccountTag(6))

\* the function-valued members of Object.prototype, which `table[name]`
\* finds on any object literal
ObjectPrototypeMethods ==
  {"constructor", "toString", "toLocaleString", "valueOf", "hasOwnProperty",
   "isPrototypeOf", "propertyIsEnumerable"}

Undefined == [undefined |-> TRUE]

\* `table[name]` in JavaScript: an own key, else an inherited member, else
\* undefined
Lookup(table, name) ==
  CASE name \in DOMAIN table           -> [bytes |-> table[name]]
    [] name \in ObjectPrototypeMethods -> [jsFunction |-> name]
    [] OTHER                           -> Undefined

\* the IDL lists as `anchor build` writes them: distinct names, each with
\* the sighash discriminator Anchor derives from its kind and name
Generated(names, kind) ==
  { [k \in DOMAIN s |-> [name |-> s[k], discriminator |-> [sighash |-> <<kind, s[k]>>]]] :
      s \in {t \in SeqOf(names, MaxEntries) : IsInjective(t)} }

\* JSON.stringify drops a property whose value is a function or undefined
Json(list) ==
  [k \in DOMAIN list |->
     IF \/ "jsFunction" \in DOMAIN list[k].discriminator
        \/ list[k].discriminator = Undefined
     THEN [name |-> list[k].name]
     ELSE list[k]]

NoOutput == [instructions |-> <<>>, accounts |-> <<>>, printed |-> FALSE]

-----------------------------------------------------------------------------
(* updateDiscriminators()                                                  *)

\* Mutant: the `val === undefined` check dropped; undefined is assigned.
LoopStepNoCheck(list, table) ==
  /\ list' = [list EXCEPT ![i].discriminator = Lookup(table, list[i].name)]
  /\ i' = i + 1
  /\ UNCHANGED pc

\* one iteration of `for (ix of list)`: look the name up, throw on
\* undefined, else assign the value and go on
LoopStep(list, table) ==
  LET val == Lookup(table, list[i].name)
  IN \/ /\ val = Undefined
        /\ pc' = "threw"
        /\ UNCHANGED <<list, i>>
     \/ /\ val # Undefined
        /\ list' = [list EXCEPT ![i].discriminator = val]
        /\ i' = i + 1
        /\ UNCHANGED pc

InstructionStep ==
  /\ pc = "instructions"
  /\ i <= Len(ixs)
  /\ LoopStep(ixs, instructionValues)
  /\ UNCHANGED <<accs, out>>

InstructionsDone ==
  /\ pc = "instructions"
  /\ i > Len(ixs)
  /\ pc' = "accounts"
  /\ i' = 1
  /\ UNCHANGED <<ixs, accs, out>>

AccountStep ==
  /\ pc = "accounts"
  /\ i <= Len(accs)
  /\ LoopStep(accs, accountValues)
  /\ UNCHANGED <<ixs, out>>

\* return idl; console.log(JSON.stringify(...))
LogIdl ==
  /\ pc = "accounts"
  /\ i > Len(accs)
  /\ pc' = "printed"
  /\ out' = [instructions |-> Json(ixs), accounts |-> Json(accs), printed |-> TRUE]
  /\ UNCHANGED <<ixs, accs, i>>

Init ==
  /\ ixs \in Generated(IdlInstructions, "global")
  /\ accs \in Generated(IdlAccounts, "account")
  /\ pc = "instructions"
  /\ i = 1
  /\ out = NoOutput

Next == InstructionStep \/ InstructionsDone \/ AccountStep \/ LogIdl

\* the script exits after printing or throwing: those states end behaviours
Spec == Init /\ [][Next]_vars

-----------------------------------------------------------------------------
(* Properties *)

Names(list) == {list[k].name : k \in DOMAIN list}

\* the reference result: the IDL with each entry's discriminator replaced
\* by the bytes its table lists for its name
Expected(list, table) ==
  [k \in DOMAIN list |-> [name |-> list[k].name, discriminator |-> [bytes |-> table[list[k].name]]]]

Listed ==
  /\ Names(ixs) \subseteq DOMAIN instructionValues
  /\ Names(accs) \subseteq DOMAIN accountValues

\* What updateDiscriminators promises with its two `not found` throws:
\* the script prints an IDL only if the tables list every instruction and
\* account name of it, and then every printed entry carries exactly its
\* table's bytes; it throws only on a name the tables do not list.  The
\* lookup is a plain property read on an object literal.
OutputFollowsTables ==
  /\ pc = "printed" =>
       /\ Listed
       /\ out.instructions = Expected(ixs, instructionValues)
       /\ out.accounts = Expected(accs, accountValues)
  /\ pc = "threw" => ~Listed

=============================================================================
