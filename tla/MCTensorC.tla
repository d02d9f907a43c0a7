----------------------------- MODULE MCTensorC -----------------------------
EXTENDS TensorC

CONSTANTS f, g

MCNames == {f, g}
MCSymmetry == Permutations(MCNames)

Uses1(form) == [form : {form}, name : MCNames, parts : {<<n>> : n \in MCNames}]
Variables == [form : {"var"}, name : MCNames, parts : {<<>>}]

MCTargets ==
    Variables \cup {[form |-> "literal", parts |-> <<>>]}
        \cup {e \in Uses1("index") : e.parts # <<e.name>>}

MCExprs ==
    MCTargets \cup Uses1("call") \cup [form : {"call"}, name : MCNames, parts : {<<>>}]
        \cup [form : {"operator"}, parts : {<<n, n>> : n \in MCNames}]

\* Given, inferred, both alike, both different, neither, ragged and empty.
MCTensorForms ==
    { <<<<1, 2>>, <<>>>>, <<<<>>, <<2, 1>>>>, <<<<1, 1>>, <<1, 1>>>>, <<<<2, 2>>, <<>>>>,
      <<<<1, 2>>, <<2, 1>>>>, <<<<>>, <<>>>>, <<<<>>, <<0>>>>, <<<<0, 1>>, <<>>>> }

MCParamLists == {<<>>, <<f>>, <<g>>, <<f, f>>}
=============================================================================
