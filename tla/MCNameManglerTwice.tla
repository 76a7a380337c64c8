-------------------------- MODULE MCNameManglerTwice --------------------------
(* An int and two pointers to it.                                           *)
EXTENDS NameManglerTwice

MCQualifierSets == {{}}
===============================================================================
