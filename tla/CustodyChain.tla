----------------------------- MODULE CustodyChain -----------------------------
(***************************************************************************)
(* What the custody of a lot promises, without objects, transactions or    *)
(* handlers.  The lot has a chain of stages, each recorded by a request    *)
(* for that stage, that begins with the harvest and never gets shorter.  A *)
(* save may bring several stages at once, and a resend may take the place  *)
(* of the request that recorded a stage.  A request is vouched for when    *)
(* its stage is recorded, and that is final.                               *)
(***************************************************************************)
EXTENDS Integers

CONSTANTS
    Posts,       \* the requests
    StageOf,     \* the stage each of them records
    NoPost

VARIABLES
    chain,       \* the request that recorded each stage
    vouched      \* the requests answered with success

chainVars == <<chain, vouched>>

Extent(c) == {s \in 1..4 : c[s] # NoPost}

\* The chains without gaps, of requests that are each in its place.
Chains ==
    {c \in [1..4 -> Posts \cup {NoPost}] :
        \A s \in Extent(c) : StageOf[c[s]] = s /\ 1..s \subseteq Extent(c)}

ChainInit == chain = [s \in 1..4 |-> NoPost] /\ vouched = {}

Record ==
    /\ chain' \in Chains
    /\ Extent(chain) \subseteq Extent(chain')
    /\ UNCHANGED vouched

Vouch(post) ==
    /\ StageOf[post] \in Extent(chain)
    /\ vouched' = vouched \cup {post}
    /\ UNCHANGED chain

ChainNext == Record \/ \E post \in Posts : Vouch(post)

ChainSpec == ChainInit /\ [][ChainNext]_chainVars
=============================================================================
