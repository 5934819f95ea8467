--------------------------- MODULE MCLocalService ----------------------------
(* Two voices with good clips, and a clip of another embedding model.  The   *)
(* probes are either voice, a voice between the two, and an embedding of     *)
(* another model.                                                            *)
EXTENDS LocalService, TLC

Clip(v, m, s, o) == [vector |-> v, model |-> m, speech |-> s, origin |-> o]

SomeClips == {Clip("anna", "m1", 5, "clean"), Clip("anna", "m1", 6, "clean"),
              Clip("bela", "m1", 5, "clean"), Clip("bela", "m0", 5, "clean")}
SomeProbes == {Clip(v, "m1", 1, "clean") : v \in {"anna", "bela", "both"}}
                  \union {Clip("anna", "m0", 1, "clean")}

Percent == [p \in {"anna", "bela"} \X {"anna", "bela", "both"} |->
              IF p[2] = "both" THEN 80 ELSE IF p[1] = p[2] THEN 95 ELSE 20]

TheInput == {"meeting"}
WhoSpeaks == [i \in TheInput |-> {Clip("anna", "m1", 1, "clean")}]

Symmetry == Permutations(Identities) \union Permutations(Names)
                \union Permutations(Consents) \union Permutations(Keys)
=============================================================================
