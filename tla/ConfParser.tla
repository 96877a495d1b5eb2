------------------------------- MODULE ConfParser -------------------------------
(***************************************************************************)
(* testcase/common/confparser: confparser_mux makes one line of every      *)
(* combination of the variables of its command line, and confparser_demux  *)
(* and confparser_demux2 take such a line apart.  A string is a sequence   *)
(* of characters.                                                          *)
(***************************************************************************)
EXTENDS Integers, Sequences, FiniteSets, SequencesExt

CONSTANT Alnum   \* the characters for which isalnum holds

ASSUME AlnumAssumption == {"_", "=", ",", " "} \cap Alnum = {}

error == "error"

-----------------------------------------------------------------------------
(* confparser_mux: an argument is a name, "=" and configurations between   *)
(* commas, of which the last is not empty.                                 *)
Splits(arg, e) ==                    \* at the "=" in place e
  /\ arg[e] = "=" /\ \A p \in 1 .. e - 1 : arg[p] \in Alnum
  /\ e < Len(arg) /\ Last(arg) # ","
  /\ \A p \in e + 1 .. Len(arg) : arg[p] \in Alnum \cup {","}

IsArgument(arg) == \E e \in DOMAIN arg : Splits(arg, e)

(* The configurations: cut at every comma.                                 *)
Cut(s) ==
  LET last[n \in 0 .. Len(s)] ==          \* the parts of the first n characters
        IF n = 0 THEN << <<>> >>
        ELSE IF s[n] = "," THEN Append(last[n - 1], <<>>)
        ELSE Front(last[n - 1]) \o << Append(Last(last[n - 1]), s[n]) >>
  IN  last[Len(s)]

Variable(arg) ==
  LET e == CHOOSE p \in DOMAIN arg : Splits(arg, p)
  IN  [name |-> SubSeq(arg, 1, e - 1), conf |-> Cut(SubSeq(arg, e + 1, Len(arg)))]

(* One argument in error leaves no variable at all.                        *)
parse_commandline(argv) ==
  IF \A n \in DOMAIN argv : IsArgument(argv[n])
  THEN [n \in DOMAIN argv |-> Variable(argv[n])] ELSE <<>>

(* The lines that print_permutations_recursive prints, from variable n on: *)
(* in round i of the loop those of the next variable, each after mystring. *)
print_permutations(variables) ==
  LET end == Len(variables)
      from[n \in 1 .. end + 1] ==
        IF n > end THEN << <<>> >>
        ELSE LET inner == Len(from[n + 1])
             IN  [k \in 1 .. Len(variables[n].conf) * inner |->
                    LET i == (k - 1) \div inner + 1
                        j == ((k - 1) % inner) + 1
                        mystring == variables[n].name \o <<"_">> \o variables[n].conf[i]
                    IN  IF n < end THEN mystring \o <<"_">> \o from[n + 1][j] ELSE mystring]
  IN  from[1]

confparser_mux(argv) ==
  LET variables == parse_commandline(argv)
  IN  IF variables = <<>> THEN error ELSE print_permutations(variables)

-----------------------------------------------------------------------------
(* The underscores up to position p.                                       *)
Underscores(s, p) == Cardinality({q \in 1 .. p : s[q] = "_"})

(* confparser_demux: every other underscore is "=", the rest are blanks.   *)
EqualFirst_blank(n) == n % 2 = 0                                      \* mutant
EqualFirst(n) == n % 2 = 1

confparser_demux(s) ==
  [p \in DOMAIN s |->
     IF s[p] # "_" THEN s[p]
     ELSE IF EqualFirst(Underscores(s, p)) THEN "=" ELSE " "]

(* confparser_demux2: what is not a configuration becomes a blank.         *)
confparser_demux2(s) ==
  [p \in DOMAIN s |->
     IF s[p] # "_" /\ EqualFirst(Underscores(s, p)) THEN s[p] ELSE " "]
=============================================================================
