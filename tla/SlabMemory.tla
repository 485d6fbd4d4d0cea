----------------------------- MODULE SlabMemory -----------------------------
(***************************************************************************)
(* The paged slab of a VM memory account: the AccountIndex table and the  *)
(* sectors of linked pages (tests/memory/allocator.ts, sector.ts,         *)
(* page.ts), read back by TestMemory.getAccount (tests/utils/memory.ts).  *)
(*                                                                         *)
(* The remote program owns every write.  Its allocator is not in this      *)
(* repository; Write, Update and Free follow the spec (section 4.4): a     *)
(* record is split into chunks over free pages of one sector, chained by   *)
(* next_page, page 0 never a continuation; free marks the chain's pages    *)
(* unallocated, leaves their bytes, and clears the index entry.            *)
(*                                                                         *)
(* An index is allocated while its AccountIndex.size is not 0; size      *)
(* counts pages, not bytes.  `stored` is a history variable: the record   *)
(* the program last wrote to each slot, or NoRecord.                      *)
(***************************************************************************)
EXTENDS Integers, Sequences, AccountCodec

CONSTANTS
  Slots,       \* account indices 0 .. NUM_ACCOUNTS-1
  SectorIds,   \* sector indices 0 .. NUM_SECTORS-1
  NumPages     \* pages per sector (Sector.NUM_PAGES)

ASSUME NumPages \in Nat \ {0}

VARIABLES
  accounts,   \* AccountBuffer.accounts: slot -> AccountIndex
  sectors,    \* AccountBuffer.sectors: sector -> Sector
  stored      \* history: the record written to each slot

mem == <<accounts, sectors>>
slabVars == <<mem, stored>>

Pg == 0 .. NumPages - 1

\* a zero-filled AccountIndex entry and Page, as the account is created
EmptyIndex == [size |-> 0, page |-> 0, sector |-> 0]
EmptyPage == [is_allocated |-> 0, data |-> ZeroChunk, next_page |-> 0]

NoRecord == [variant |-> -1, id |-> "none"]

-----------------------------------------------------------------------------
(* getAccount: start at accounts[index].page of accounts[index].sector and *)
(* follow next_page until it is 0, concatenating the pages' data.  No     *)
(* check of size or is_allocated.  The recursion is cut after NumPages    *)
(* hops; a longer chain would be a cycle, on which the loop never ends.   *)

RECURSIVE FollowFrom(_, _, _)
FollowFrom(sec, p, fuel) ==
  IF fuel = 0 \/ sec.pages[p].next_page = 0 THEN <<p>>
  ELSE <<p>> \o FollowFrom(sec, sec.pages[p].next_page, fuel - 1)

PageChain(info) == FollowFrom(sectors[info.sector], info.page, NumPages)

ChainData(info) ==
  LET chain == PageChain(info)
  IN [k \in DOMAIN chain |-> sectors[info.sector].pages[chain[k]].data]

\* Mutant: only the head page is read (the loop dropped).
GetAccountHeadOnly(index) ==
  Decode(<<sectors[accounts[index].sector].pages[accounts[index].page].data>>)

GetAccount(index) == Decode(ChainData(accounts[index]))

-----------------------------------------------------------------------------
(* Remote writes (spec-modelled) *)

\* the page lists a record of n chunks can take in sector sc: distinct
\* free pages, page 0 only as the head
Placements(sc, n) ==
  { ps \in [1 .. n -> Pg] :
      /\ \A j, k \in 1 .. n : j # k => ps[j] # ps[k]
      /\ \A k \in 1 .. n : sectors[sc].pages[ps[k]].is_allocated = 0
      /\ \A k \in 2 .. n : ps[k] # 0 }

Write(index, r) ==
  LET n == Len(Pack(r))
  IN /\ accounts[index].size = 0
     /\ \E sc \in SectorIds : \E ps \in Placements(sc, n) :
          /\ sectors' = [sectors EXCEPT
               ![sc].num_allocated = @ + n,
               ![sc].pages = [p \in Pg |->
                  IF \E k \in 1 .. n : ps[k] = p
                  THEN LET k == CHOOSE j \in 1 .. n : ps[j] = p
                       IN [is_allocated |-> 1, data |-> Pack(r)[k],
                           next_page |-> IF k < n THEN ps[k + 1] ELSE 0]
                  ELSE @[p]]]
          /\ accounts' = [accounts EXCEPT ![index] = [size |-> n, page |-> ps[1], sector |-> sc]]
     /\ stored' = [stored EXCEPT ![index] = r]

\* an instruction rewriting a live account in place (same variant)
Update(index, r) ==
  LET info == accounts[index]
      chain == PageChain(info)
  IN /\ accounts[index].size # 0
     /\ r.variant = stored[index].variant
     /\ r # stored[index]
     /\ sectors' = [sectors EXCEPT ![info.sector].pages = [p \in Pg |->
           IF \E k \in DOMAIN chain : chain[k] = p
           THEN [@[p] EXCEPT !.data = Pack(r)[CHOOSE k \in DOMAIN chain : chain[k] = p]]
           ELSE @[p]]]
     /\ stored' = [stored EXCEPT ![index] = r]
     /\ UNCHANGED accounts

Free(index) ==
  LET info == accounts[index]
      chain == PageChain(info)
  IN /\ accounts[index].size # 0
     /\ sectors' = [sectors EXCEPT
           ![info.sector].num_allocated = @ - Len(chain),
           ![info.sector].pages = [p \in Pg |->
              IF \E k \in DOMAIN chain : chain[k] = p THEN [@[p] EXCEPT !.is_allocated = 0]
                                                     ELSE @[p]]]
     /\ accounts' = [accounts EXCEPT ![index] = EmptyIndex]
     /\ stored' = [stored EXCEPT ![index] = NoRecord]

SlabInit ==
  /\ accounts = [s \in Slots |-> EmptyIndex]
  /\ sectors = [c \in SectorIds |->
                 [num_allocated |-> 0, pages |-> [p \in Pg |-> EmptyPage]]]
  /\ stored = [s \in Slots |-> NoRecord]

SlabNext ==
  \/ \E s \in Slots, r \in Records : Write(s, r)
  \/ \E s \in Slots, r \in Records : Update(s, r)
  \/ \E s \in Slots : Free(s)

SlabSpec == SlabInit /\ [][SlabNext]_slabVars

-----------------------------------------------------------------------------
(* Properties *)

\* Round trip (spec section 8): after any interleaving of writes, in-place
\* updates and frees of other slots, getAccount of a live slot walks its
\* page chain and decodes exactly the record last written there.
ReadRoundTrip ==
  \A s \in Slots : stored[s] # NoRecord => GetAccount(s) = stored[s]

\* Reading a slot that holds no account never yields the live account of
\* another slot (the spec has read fail with SlotEmptyError instead).
EmptySlotReadIsNotAnotherAccount ==
  \A s \in Slots :
    stored[s] = NoRecord => GetAccount(s) \notin {stored[t] : t \in Slots \ {s}}

=============================================================================
