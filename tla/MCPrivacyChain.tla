--------------------------- MODULE MCPrivacyChain ---------------------------
(* PrivacyChain with each of the choices of its configuration that matter.  *)
EXTENDS PrivacyChain

Full == [association : {"person_bbox", "independent"}, recognizer : {"mobilefacenet"},
         decider : {"passthrough"}, faceOnly : BOOLEAN]
Plain == {[association |-> "none", recognizer |-> "noop", decider |-> "noop", faceOnly |-> FALSE]}
AllSettings == Full \cup Plain

PeopleSymmetry == Permutations(People)
=============================================================================
