---------------------------- MODULE ChainMirror ----------------------------
(***************************************************************************)
(* What OnsSync promises whatever fails: a chain to which blocks are       *)
(* added, and a mirror that holds for an address nothing, or a block of    *)
(* the chain that set it, and exchanges it for later ones only.  There is  *)
(* no wire, process or walk here.                                          *)
(***************************************************************************)
EXTENDS Integers, Sequences

CONSTANTS Address, Change, MaxBlocks

VARIABLES chain, mirror

NotStored == 0

Setting(block, address) ==
    /\ chain[block].type = "SET"
    /\ chain[block].address = address

Grow ==
    \E change \in Change :
        /\ Len(chain) < MaxBlocks
        /\ chain' = Append(chain, change)
        /\ UNCHANGED mirror

Advance(address, block) ==
    /\ Setting(block, address)
    /\ mirror[address] < block
    /\ mirror' = [mirror EXCEPT ![address] = block]
    /\ UNCHANGED chain

Init ==
    /\ chain = <<>>
    /\ mirror = [address \in Address |-> NotStored]

Next ==
    \/ Grow
    \/ \E address \in Address, block \in DOMAIN chain : Advance(address, block)

Spec == Init /\ [][Next]_<<chain, mirror>>
=============================================================================
