------------------------------ MODULE Snapshots ------------------------------
(***************************************************************************)
(* The list of snapshots of one account: a value per block in which it     *)
(* changed.  ERC20WithSnapshot (revision 1) writes such lists of balances  *)
(* and GovernancePowerDelegationERC20 (revision 2) of voting and           *)
(* proposition power, with the same code.  The mapping from a position to  *)
(* a Snapshot and its count are a sequence here; positions start at 1.     *)
(***************************************************************************)
EXTENDS Integers, Sequences

Snapshot == [blockNumber : Nat, value : Nat]

Latest(snapshots) == snapshots[Len(snapshots)]

\* Mutants of WriteSnapshot: a second write in a block is appended; every
\* write replaces the last snapshot.
WriteSnapshotAppending(snapshots, currentBlock, newValue) ==
    Append(snapshots, [blockNumber |-> currentBlock, value |-> newValue])

WriteSnapshotReplacing(snapshots, currentBlock, newValue) ==
    IF snapshots # <<>>
    THEN [snapshots EXCEPT ![Len(snapshots)] =
                [blockNumber |-> currentBlock, value |-> newValue]]
    ELSE <<[blockNumber |-> currentBlock, value |-> newValue]>>

\* _writeSnapshot: one snapshot per block, the last write of the block wins.
WriteSnapshot(snapshots, currentBlock, newValue) ==
    IF snapshots # <<>> /\ Latest(snapshots).blockNumber = currentBlock
    THEN [snapshots EXCEPT ![Len(snapshots)].value = newValue]
    ELSE Append(snapshots, [blockNumber |-> currentBlock, value |-> newValue])

\* One round of the loop of _searchByBlockNumber, over the positions from the
\* first to the second of "range"; "search" is what the next rounds find.
SearchRound(snapshots, blockNumber, search, range) ==
    LET lower  == range[1]
        upper  == range[2]
        center == upper - (upper - lower) \div 2
        found  == snapshots[center]
    IN  IF upper <= lower THEN snapshots[lower].value
        ELSE IF found.blockNumber = blockNumber THEN found.value
        ELSE IF found.blockNumber < blockNumber
        THEN search[<<center, upper>>]
        ELSE search[<<lower, center - 1>>]

BinarySearch(snapshots, blockNumber) ==
    LET search[range \in (1 .. Len(snapshots)) \X (1 .. Len(snapshots))] ==
            SearchRound(snapshots, blockNumber, search, range)
    IN  search[<<1, Len(snapshots)>>]

\* Mutant of SearchByBlockNumber: no test for a block before the first snapshot.
SearchWithoutImplicitZero(snapshots, balance, blockNumber) ==
    IF snapshots = <<>> THEN balance
    ELSE IF Latest(snapshots).blockNumber <= blockNumber
    THEN Latest(snapshots).value
    ELSE BinarySearch(snapshots, blockNumber)

\* _searchByBlockNumber for an account that owns "balance" at present.
SearchByBlockNumber(snapshots, balance, blockNumber) ==
    IF snapshots = <<>> THEN balance
    ELSE IF Latest(snapshots).blockNumber <= blockNumber
    THEN Latest(snapshots).value
    ELSE IF snapshots[1].blockNumber > blockNumber THEN 0
    ELSE BinarySearch(snapshots, blockNumber)

=============================================================================
