----------------------------- MODULE MangledNames ------------------------------
(* Mangled names of Swift for the model checker, each of them whole: together    *)
(* they lead the parser through every production of SwiftGrammar that can        *)
(* succeed (but for the choice of digits) and build a node of                    *)
(* every kind the printer knows. A few are names on which the code gives up.     *)
EXTENDS Naturals, Sequences

Letters(word) == [i \in 1..Len(word) |-> SubSeq(word, i, i)]
Each(heads, tails) == {h \o t : h \in heads, t \in tails}
\* A function and a class.
Function == "F1m1fFT_T_"
Class == "C1m1c"

--------------------------------------------------------------------------------
(* Types.                                                                        *)

Builtins == {"Bb", "BB", "Bf32_", "Bi8_", "Bv4Bi8_", "Bv4Bf32_", "Bv4Bp", "BO", "Bo", "Bp", "Bw"}
Standards == Each({"S"}, {"a", "b", "c", "d", "f", "i", "P", "p", "q", "Q", "R", "r", "S", "u"})
FunctionTypes == Each(Each({"b", "c", "F", "f", "K", "Xf"}, {"", "z"}), {"T_T_", "SiSb"})
Wrapped == Each({"D", "M", "R", "XMt", "XMT", "XMo", "PM", "XPMt", "Xo", "Xu", "Xw", "Xb"}, {"Si"})
Lists == {"P_", "P1m1p_", "P1m1ps1q_", "P1m1pS0__", "P1m1pS_1q_", "XP1m1p_", "PMP_", "XPMTP1m1p_",
          "T_", "TSi_", "T1aSi1bSb_", "tSi_", "T1aTSi__"}
Archetypes == {"QP1m1p", "QQP1m1p1t", "TQP1m1pQS1_1t_", "TQP1m1pQS0__", "Qs1t", "Qd0_0_",
               "Qq_C1m1c", "Q_", "Q0_"}
Dependents == {"q_", "q0_", "qd0_0_", "qx1t", "qxX1t", "qxP1m1p1t", "x", "wx1t", "Wx1t1u_",
               "Twx1twxS0__", "Twx1twxS___"}
Bound == {"GC1m1cSi_", "GV1m1vSiSb_", "GO1m1eGSaSi__", "GSaSi_", "GSqSi_", "GSQSi_", "GSi_", "GBwSi_"}

Requirements == {"x1m1p", "xzSi", "xC1m1c", "wx1tzSi", "wxP1m1p1tzSi", "Wx1t1u_zSi", "d0_0_s1p",
                 "x1m1p_S0_", "x1m1p_S_1q", "xC1m1c_S0_"}
Signatures == {"r", "z0_r", "0_zr", "Rr"} \cup Each(Each({"R"}, Requirements), {"r"})
Generic == Each(Each({"u"}, Signatures), {"x", "FxSi"})

\* Function types of SIL: callee, attributes, then parameters and results.
Attributed == Each(Each({"XFt", "XFd", "XFg", "XFo"}, {"", "Cb", "Cc", "Cm", "CO", "Cw"}),
                   {"___", "N___"})
Passing == Each(Each({"XFoGr_", "XFo_"}, {"", "dSi", "gSi", "eSi", "iSi", "lSi", "oSidx"}),
                {"__", "_aSi_", "_dSi_", "_iSi_", "_oSi_", "_oSizoSi_"})

Nominal == {"C1m1c", "V1m1v", "O1m1e", "a1m1t", "ERR"}
TypeNames == Nominal \cup Builtins \cup Standards \cup FunctionTypes \cup Wrapped \cup Lists
             \cup Archetypes \cup Dependents \cup Bound \cup Generic \cup Attributed \cup Passing

--------------------------------------------------------------------------------
(* Entities.                                                                     *)

DeclNames == {"1a", "L_1a", "P1a1b", "oi1p", "op1s", "oP1n", "X1a", "Xoi1p", "Xop1s", "XoP1n"}
Contexts == {"1m", "X1m", "s", "So", "SC", "C1m1c", "O1m1e", "VC1m1c1v", "P1m1p", Function,
             "vC1m1c1vSi", "I1mi", "E1mSa", "EsC1m1c", "ESoC1m1c", "e1mrC1m1c", "ZC1m1c", "ZSi",
             "ZFC1m1c1fFT_T_"}
Accessors == Each({"aO", "ao", "ap", "au", "lO", "lo", "lp", "lu", "g", "G", "s", "m", "w", "W"},
                  {"1aSi"})
Unnamed == {"D", "d", "e", "E"} \cup Each({"C", "c", "U_", "u0_"}, {"Si", "FSiSi", "urFxx"})
Named == Each(DeclNames, {"Si", "FSiSi", "urFxx"})

Members == Each(Each({"F", "v", "i", "ZF", "Zv", "Zi"}, {Class}), Accessors \cup Unnamed \cup Named)
Initializers == Each(Each({"I", "ZI"}, {Class}), Accessors \cup Unnamed \cup {"A_", "A0_", "i"})
Declared == Each(Each({"F", "v"}, Contexts), {"1aFSiSi"})
            \cup Each(Each({"C", "V", "O"}, Contexts), {"1a"})
EntityNames == Members \cup Initializers \cup Declared

--------------------------------------------------------------------------------
(* Globals: metadata, witnesses, thunks.                                         *)

ValueWitnesses == Each(Each({"w"}, {"al", "ca", "ta", "de", "xx", "XX", "CP", "Cp", "cp", "Tk",
    "tk", "pr", "TK", "Xx", "Cc", "Tt", "tT", "xs", "xg", "ug", "up"}), {"Si"})
Metadata == Each({"MP", "Ma", "ML", "Mm", "Mn", "Mf", "M", "WV", "t"}, {Class}) \cup {"Mp1m1p"}
Conformance == "C1n1c1m1p1m"
Witnesses == Each({"WP", "WG", "WI", "Wa", "WlSi", "WLSi"}, {Conformance})
             \cup {"Wt" \o Conformance \o "1t", "WT" \o Conformance \o "1t1m1q",
                   "TW" \o Conformance \o Function}
Offsets == {"WoFC1m1c1fFT_T_", "WvdvC1m1c1vSi", "WvivC1m1c1vSi"}
Thunks == Each({"TR", "Tr"}, {"SiSb", "GrxSi"})
Forwarders == {"PA", "PAo", "PA__TF1m1fFT_T_", "PAo__TtSi"}
Globals == ValueWitnesses \cup Metadata \cup Witnesses \cup Offsets \cup Thunks \cup Forwarders

--------------------------------------------------------------------------------
(* What stands in front of an entity, and behind it.                             *)

\* Constants, closures, options; the types of a closure end in one that fails.
Params == {"n_", "i_", "k_", "cpfr1a_", "cpg1a_", "cpi4_", "cpfl4_", "cpse0v1a_", "cpse1v1a_",
           "cl1a_", "cl1aSiC1h1c_", "cl1aC1h__", "cl1aFC1h1cX_", "cl1aC1h1cC1h__",
           "d_", "g_", "s_", "dg_", "ds_", "gs_", "dgs_"}
Substituted == {"_", "Si__", "SiSi1m1p1m__", "Si_C1h1c__"}
Entities == Each({"_T"}, {"tC1m1c", "tTC1m1cS0__", Function})
Specialized == Each(Each({"TSg5"}, Substituted), Entities)
               \cup Each(Each({"TSf5"}, Each(Params, {"_", "n__"})), Entities)
               \cup {"TSg5Si___TTSf5d___TtSi"}
Attributes == Each({"To", "TO", "TD", "Td", "TV"}, {Function})
Suffixed == {"tSiXX"}

AllNames == Each({"_T"}, Each({"t"}, TypeNames) \cup EntityNames \cup Globals \cup Specialized
                         \cup Attributes \cup Suffixed)
================================================================================
