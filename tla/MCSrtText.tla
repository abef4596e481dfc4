------------------------------ MODULE MCSrtText --------------------------------
(***************************************************************************)
(* All short texts over three alphabets: words and markup, multi-byte      *)
(* sequences, escapes; words over several lines, tags over the end of a    *)
(* line; and texts with tags for libass.                                   *)
(***************************************************************************)
EXTENDS SrtText

Upto(S, k) == UNION {[1..l -> S] : l \in 0..k}

MarkupTexts == Upto({"a", " ", "\n", "<", ">"}, 5)
Utf8Texts   == Upto({"a", "2", "3", "c", "<", ">"}, 5)
EscapeTexts == Upto({"a", "\\", "h", "{", "}", "\r"}, 4)
WordTexts   == [1..7 -> {"a", " ", "\n"}]
TagTexts    == {a \o <<"<">> \o b \o <<">">> \o c :
                  a \in Upto({"a", " "}, 2), b \in Upto({"a", "\n"}, 2), c \in Upto({"a", " "}, 3)}
HtmlCues    == Upto({"a", "<i>", "<font", "'", ">", "\n"}, 5)
                 \cup {<<"<font", "'", "a", "'", ">">> \o t \o <<x>> : x \in {"a", "</font>"},
                        t \in Upto({"a", "\\", "h", "</i>", "<b>", "\r"}, 3)}
AllTexts == MarkupTexts \cup Utf8Texts \cup EscapeTexts \cup WordTexts \cup TagTexts
==============================================================================
