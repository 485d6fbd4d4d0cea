# TLA+ models of the code-vm client core

These modules model the TypeScript client core under `src/tests/`. The
core keeps local mirrors of two structures of the remote code-vm program:

1. the compressed-storage **incremental Merkle tree**;
2. the **paged slab memory** that holds virtual accounts.

The core also includes the **account codec** and the **compression bridge**
that moves accounts between the slab and the tree. The remote Solana
program is not in this repository. The parts of it the client talks to are
modelled from `spec.md`, and those definitions are marked `spec_modelled`
in `PROJECT.json`.

## The system and how its parts interact

| Part | Source | State | Operations |
|---|---|---|---|
| Zero-subtree generator | `utils/merkle-tree.ts` `calcZeros` | `zeroTree` | derived once in the constructor |
| Incremental Merkle tree | `utils/merkle-tree.ts`, `utils/hash.ts` | `root`, `filledSubtrees`, `nextIndex`, `leaves` | `insert`, `replaceLeaf`/`replace`/`remove`, `getProofFor`/`getProofForLeafAtIndex`, `verifyLeaf` |
| Account codec | `memory/accounts.ts` | none | `pack`, `new VirtualAccount(data)` |
| Slab memory layout and reader | `memory/allocator.ts`, `sector.ts`, `page.ts`, `utils/memory.ts` | `accounts[]` (AccountIndex), `sectors[].pages[]` | `getAccount` (walks the `next_page` chain) |
| Remote allocator and program | not in the repository (spec §4.4, §4.5) | on-chain slab, on-chain tree | write, update, free, `system_account_compress`/`decompress` |
| Compression bridge | `utils/storage.ts` | `memoryState` (a local tree), `compressed` map | `createStorage`, `compressVirtualAccount`, `decompressVirtualAccount` |
| Relay history mirror | `utils/relay.ts`, `instructions/relay.ts` | a local tree | `history.insert` after each confirmed transfer |
| IDL discriminator script | `idl/src/scripts/update-discriminators.ts` | the imported IDL | `updateDiscriminators`, then `console.log(JSON.stringify(...))` |

The IDL script is separate from the rest. At build time it rewrites the
discriminators of the IDL that `anchor build` generates with values
copied by hand from the Rust program. Anchor's coders then use those
values to recognise instructions and accounts by prefix.

How a compression runs, in order:

1. The bridge reads an account from the slab with `getAccount`.
2. It hashes the account's packed bytes and signs the hash.
3. It inserts `hash(sig ‖ va_hash)` into its local tree and stores the
   account in `compressed`.
4. It sends the RPC. The program inserts the same hash into the on-chain
   tree and frees the slot.

Decompression is the reverse:

1. It looks up the stored account and builds a proof from the local tree.
2. It removes the leaf locally.
3. It sends the RPC. The program checks the proof against the on-chain
   root, clears the leaf and writes the account back into a slot.

After each call the tests (`instructions/system.ts`, `checkStorageState`)
check that the local tree equals the on-chain tree.

All calls are awaited one after another. Nothing inside the core runs
concurrently (spec §5). The hard behaviours are therefore not thread
interleavings. They are:

- long sequences of calls;
- failures between a local step and the RPC;
- stale data the slab keeps after a free;
- duplicate values;
- boundaries: a full tree, page 0 and `next_page = 0`.

## Modules

- **`MerkleTree.tla`** models the tree: one action per operation.
  - **Hashes** are symbolic records. `Hash(x)` is `[sha256 |-> x]`.
    `HashLeftRight(l, r)` keeps its two children as a set, because
    `hashLeftRight` sorts them before hashing. Two different terms never
    stand for the same digest.
  - **`Insert`** is the level walk of `insert` (`InsertWalk`).
    **`InsertWhenFull`** is its throw.
  - **`ReplaceLeaf`** has three outcomes, in the code's order: TypeError
    on an `undefined` sibling, InvalidProof, or the update. The update
    covers the cache refresh by value, the new root and the leaf log.
  - **`GetProofForLeafAtIndex`** rebuilds the padded layers from the leaf
    log, as the brute-force code does. Proof construction and
    verification are RECURSIVE operators.
  - **`result`** records how the last call ended, so the error paths are
    visible as states.
  - **`NextDistinct`** is how `storage.ts` and `relay.ts` call the tree:
    a value is never inserted while a leaf holds it.
- **`MC_MerkleTree.tla`** supplies model values for the inserted values
  and the seed.
- **`AccountCodec.tla`** models the codec at page granularity. A record is
  a `variant` and a payload `id`. `Pack` gives its chunks. `Decode` reads
  the tag from the first chunk and then returns one of:
  - the record itself;
  - the all-zero durable nonce;
  - `Garbage`, for a misaligned buffer;
  - `Truncated`, for a buffer too short to deserialize.
- **`SlabMemory.tla`** models the slab.
  - **State:** `accounts` (the AccountIndex table) and `sectors` (pages
    with `is_allocated`, `data` and `next_page`). `stored` is a history
    variable: the record last written to each slot.
  - **`GetAccount`** is `getAccount`: it follows the `next_page` links
    from the index entry and decodes what it finds. Like the code, it
    does not check that the slot is allocated.
  - **`Write`, `Update`, `Free`** are the remote allocator, taken from
    the spec. Free leaves the pages' bytes and links behind.
- **`Compression.tla`** composes the parts. It EXTENDS `SlabMemory` and
  instantiates `MerkleTree` twice: `L`, the local tree, and `R`, the
  on-chain tree. The program keeps `R` with the same algorithm.
  - **`CompressVirtualAccount`** and **`DecompressVirtualAccount`** are
    the two bridge functions. Each is one step with every throw in the
    code's order. The local effects come first. Then the RPC is applied
    in full, rejected by the program's checks (`RpcRejected`), or lost
    (`RpcLost`). Either failure leaves the chain untouched.
  - **`CreateAccount`** stands for the instructions that create accounts.
  - **History variables:** `live` is the set of accounts compressed on
    chain and not decompressed since. `decompressed` and `op` are also
    history, used by the properties.
  - **Next relations:** `BridgeNext` is any caller. `ReliableNext` is
    any caller over a network that loses nothing.
    `AcceptedNext` is any caller whose every RPC is delivered and accepted. `CarefulNext` is how
    `instructions/system.ts` drives the bridge: distinct accounts,
    compress of an occupied index, decompress of a held hash into an
    empty index, every RPC accepted.

- **`Discriminators.tla`** models `update-discriminators.ts`.
  - **State:** `ixs` and `accs`, the IDL's two lists of
    `[name, discriminator]` entries; `pc` and `i`, the loop position; and
    `out`, what was printed.
  - **Init** is every IDL `anchor build` can write from the given names:
    distinct names, each with Anchor's own sighash discriminator.
  - **`LoopStep`** is one iteration of either loop. It does a JavaScript
    property read (`Lookup`): an own key gives its bytes, an
    `Object.prototype` method name gives the inherited function, and
    anything else gives `undefined`. The step then throws or assigns.
  - **`LogIdl`** is the print. `Json` drops a property whose value is a
    function or `undefined`, as `JSON.stringify` does.
  - **`instructionValues`** and **`accountValues`** are the source's
    literal tables.
- **`MC_Discriminators.tla`** gives the name sets.

- **`RelayHistory.tla`** EXTENDS `MerkleTree` with the relay's use of the
  tree (`utils/relay.ts`, `instructions/relay.ts`).
  - **`HistoryInsert`** is `relay.history.insert(commitment)` after a
    confirmed transfer. A commitment is a fresh PDA, so it is never
    inserted twice.
  - **History variables:** `roots` is the root after each insert, and
    `inserted` is each leaf as it was inserted.
- **`MC_RelayHistory.tla`** gives five commitments as model values.

## Runs

| Run | Config | Expect | What it shows |
|---|---|---|---|
| merkle_distinct | `MerkleTree_distinct.cfg` | pass (2611 states) | Checks `TypeOK`, `ProofsValid` and `FilledSubtreesMatchLeaves`. Under the callers' discipline, every leaf position keeps a proof that verifies against the root, and the cache stays the left frontier of the rebuilt tree. This holds across inserts, removes, replaces with historical proofs, and a full tree. |
| merkle_duplicates | `MerkleTree_duplicates.cfg` | violation of `ProofsValid` | Insert v1, v2 and v1 again, remove the first v1, then insert. The value-equality cache refresh overwrites the `filledSubtrees` entry that belongs to the second copy, and the next insert's root is not the root of the leaf log. |
| merkle_empty_root | `MerkleTree_emptyroot.cfg` | violation of `RootIsPaddedTreeRoot` | The constructor's root is one level short of the root of the all-empty tree. |
| slab_roundtrip | `SlabMemory.cfg` | pass (1983 states) | Checks `ReadRoundTrip`. After any writes, in-place updates and frees, which leave stale pages and links behind, `getAccount` of a live slot follows its `next_page` chain and decodes the record last written there. The mutant that reads only the head page breaks it. |
| slab_empty_read | `SlabMemory_emptyread.cfg` | violation of `EmptySlotReadIsNotAnotherAccount` | Reading an empty slot returns the account that starts at sector 0, page 0. |
| bridge_careful | `Compression_careful.cfg` | pass (8464 states) | Checks `BridgeTypeOK`, `LocalMirrorsChain` and `CompressedRecoverable`. Driven as the tests drive it, the local tree equals the on-chain tree, including when the tree is full. Every live compressed account has a local proof the chain accepts. |
| bridge_mirror | `Compression_mirror.cfg` | violation of `LocalMirrorsChain` | Compressing an empty slot reads another account and inserts its hash locally. The program then rejects the call, and the local tree stays one leaf ahead. |
| bridge_stale_entry | `Compression_stale.cfg` | violation of `DecompressOfNotCompressed` | Every RPC here is delivered and accepted. The `compressed` entry outlives the account's presence in the tree in two ways. `decompressVirtualAccount` never deletes it, and `compressVirtualAccount` sets it before an insert that throws TreeFull. A decompress of such a hash throws TypeError, where the spec says NotCompressedError. TLC's shortest trace decompresses the same hash twice. |
| relay_history | `RelayHistory.cfg` | pass (326 states) | Checks `HistoricalProofsValid`. With inserts only, as the relay does, `getProofForLeafAtIndex(k, u)` builds, for each leaf k and each later leaf u, a proof that verifies against the root the tree had right after leaf u was inserted. This holds through a full tree. The mutant that reads `until_leaf` as a leaf count breaks it. |
| idl_discriminators | `Discriminators.cfg` | pass (2656 states) | Checks `OutputFollowsTables`. The model covers every IDL of up to three instructions and three accounts, some of them unlisted in the tables. The script prints only when every name is listed, and then prints exactly the table's bytes; it throws otherwise. The mutant that drops the `=== undefined` check breaks it. |
| idl_prototype_key | `Discriminators_proto.cfg` | violation of `OutputFollowsTables` | An instruction named `constructor` is not in the table, but `instructionValues["constructor"]` is the inherited `Object` function. It passes the `=== undefined` check, and `JSON.stringify` drops it, so the IDL is printed without that discriminator. |

`PROJECT.json` gives, for each property of a passing run, a mutant: a
plausible bug in the mapped code that TLC finds. It also lists the
findings and the hazards.

## Bounds, and why they are enough

| Model | Bounds | Why |
|---|---|---|
| Tree | depth 3 (8 leaves), 3 values | Removes reach every level of the cache. The tree fills, so TreeFull occurs. Historical proofs exist for every index. Depth 2 is enough for the two violations. |
| Slab | one sector of 3 pages, 2 slots | The real records, with their tag byte, are 65, 77 and 129 bytes: 3, 3 and 5 pages of 32 bytes. The model gives the three variants 1, 2 and 3 pages instead. This keeps single-page and multi-page chains of different lengths in a sector of three pages; it does not keep the real page counts. A 3-page record has to take page 0 as its head, and frees leave stale chains. Two payloads per variant make in-place updates possible. |
| Bridge | tree depth 2, 2 slots, one payload per variant | Four compressions fill the tree. Three distinct accounts of 1 to 3 pages compete for 3 pages. With two payloads per variant the careful run grows past five minutes. |

The IDL bounds are three entries per list. The instruction names are
`init_vm`, `withdraw` and `unlock`, whose table values are neighbours, plus
one unlisted name. The account names are two listed ones plus one
unlisted. Every list order, every throw position in either loop and the
full print are all reached, and a duplicated or prefix-overlapping table
value shows up between two listed names. The tree for `bridge_stale_entry`
has depth 1 (two leaves), so TreeFull comes after two compressions. The
relay tree has depth 2 and five commitments, so it fills, and every pair
k <= u of leaves is checked against every earlier root.

A second sector adds only a choice of placement. It multiplies the states
without reaching a new case, because every check is per sector.

## Fairness

No run checks a liveness property, and no spec states fairness. The
test-side code has no background activity: every operation is one call
the test awaits, and whether a test makes the next call is up to the
test. The IDL script is two `for...of` loops over finite arrays, so it
ends by the shape of the code, and a property saying so would not depend
on what the loops do. Its end states have no successor, so its run sets
`CHECK_DEADLOCK FALSE`.

## Not modelled

- `MerkleTree.from`, `toString`, `prettyPrint` and `asTree`: debug output,
  and a copy of on-chain fields.
- The on-chain relay: the `recent_roots` ring that `saveRelayRoot` fills,
  the commitment vault and the transfer opcodes. The program is not in
  this repository and the spec does not describe it. `RelayHistory` models
  only the relay's local tree.
- Transaction building, LUTs, opcodes, `exec`, users and payments:
  encoding and RPC glue with no local state.
- The IDL smoke tests (`idl/src/tests/*.ts`). They fetch one IDL and
  decode one fixed account and instruction.
- Byte-level layouts. A payload is an abstract `id`, and a page holds one
  chunk of one record.
- Account sizes in bytes. `AccountIndex.size` counts pages.

## Plan for later work

- A check that the discriminator tables are prefix-free. It would need
  all 15 instruction names and all 6 account names in the run, since the
  tables are literals and only a duplicate among them could break it.
- The on-chain side: the program is not in this repository and the spec
  does not describe it (see Not modelled).
