------------------------- MODULE MCSmImageManager -------------------------
EXTENDS SmImageManager, TLC

\* b1 comes first: TLC's CHOOSE then gives the idle threads a job that is none of the
\* versions the symmetry exchanges.
CONSTANTS b1, c1, a1, a2, t1, t2

MCThreads == Installers \union {"remover", "cleaner"}
MCItemID == a1 :> "A" @@ a2 :> "A" @@ b1 :> "B" @@ c1 :> "C"
\* Two versions of a service that share a layer, a component, and a service with
\* another blob of the same diff ID. The digest of a manifest is named by its item,
\* so that the versions can be exchanged.
MCParts == a1 :> <<a1, "layer">> @@ a2 :> <<a2, "layer">>
           @@ b1 :> <<b1>> @@ c1 :> <<c1, "relayer">>
MCDiffID == [d \in Layers |-> "diff"]
MCSymmetry == Permutations(Installers) \union Permutations({a1, a2})
=============================================================================
