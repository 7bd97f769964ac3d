------------------------------ MODULE LinkText ------------------------------
(***************************************************************************)
(* Swapping the BMC's authority for the proxy's in a text (http.rs,        *)
(* is_target to swap_authorities).  A text is a sequence of characters, in *)
(* which "x" is any letter, "9" any digit and " " any character that ends  *)
(* an authority.  "B" is the host of the BMC and "P" that of the proxy,    *)
(* each as one character: an IPv4 address begins with a digit and holds no *)
(* letter, so that B is of the characters of a scheme and never its first. *)
(* The loop that swaps them is taken turn by turn.                         *)
(***************************************************************************)
EXTENDS Naturals, Sequences

CONSTANT Texts    \* the texts with links in them

Separator == <<":", "/", "/">>

\* external_base_url without the slash at its end.
Base == <<"x", ":", "/", "/", "P">>

Letters == {"x", "P"}
SchemeChars == Letters \cup {"9", "B"}
Delimiters == {"/", " "}
Characters == SchemeChars \cup Delimiters \cup {":"}

ASSUME LinkTextAssumption == Texts \subseteq Seq(Characters)

\* .find(|c: char| "/?#\"'<>, \t".contains(c))
EndsAuthority(char) == char \in Delimiters

\* text[from..].find("://"): none, or the offset, counted from 0 as the code does.
FindSeparator(text, from) ==
    LET at == {i \in from .. Len(text) - 3 : SubSeq(text, i + 1, i + 3) = Separator}
    IN {i \in at : \A j \in at : i <= j}

\* Mutant: the URL begins after the last blank.
SchemeStartAtBlank(text, sep) ==
    CHOOSE start \in 0 .. sep :
        /\ \A i \in start + 1 .. sep : text[i] # " "
        /\ start = 0 \/ text[start] = " "

\* scheme_start: back over what a scheme is made of, which must begin with a letter.
SchemeStart(text, sep) ==
    LET run == CHOOSE start \in 0 .. sep :
            /\ \A i \in start + 1 .. sep : text[i] \in SchemeChars
            /\ start = 0 \/ text[start] \notin SchemeChars
    IN IF run < sep /\ text[run + 1] \in Letters THEN run ELSE sep

AuthorityEnd(text, from) ==
    CHOOSE end \in from .. Len(text) :
        /\ \A i \in from + 1 .. end : ~EndsAuthority(text[i])
        /\ end = Len(text) \/ EndsAuthority(text[end + 1])

\* Mutant: a port is not taken off before the host is compared.
IsTargetWithPort(authority) == authority = <<"B">>

\* is_target: the host at any port.  What follows the last colon is a port if it
\* is digits, one at least.
IsTarget(authority) ==
    LET colons == {i \in DOMAIN authority : authority[i] = ":"}
        last == CHOOSE i \in colons : \A j \in colons : j <= i
    IN IF colons # {} /\ last < Len(authority)
          /\ \A i \in last + 1 .. Len(authority) : authority[i] = "9"
       THEN SubSeq(authority, 1, last - 1) = <<"B">>
       ELSE authority = <<"B">>

\* Mutant: a part that is no URL is passed over without being written out.
TurnDropping(text, cursor, sep, all) ==
    LET start == SchemeStart(text, sep)
        end == AuthorityEnd(text, sep + 3)
        link == SubSeq(text, start + 1, end)
        wanted == all \/ IsTarget(SubSeq(text, sep + 4, end))
    IN IF start = sep THEN [cursor |-> sep + 3, out |-> <<>>]
       ELSE [cursor |-> end,
             out |-> SubSeq(text, cursor + 1, start) \o IF wanted THEN Base ELSE link]

\* One turn of the loop of swap_authorities: where it leaves the cursor and what
\* it writes.  "all" swaps every URL, as Location and Content-Location ask for.
Turn(text, cursor, sep, all) ==
    LET start == SchemeStart(text, sep)
        end == AuthorityEnd(text, sep + 3)
        link == SubSeq(text, start + 1, end)
        wanted == all \/ IsTarget(SubSeq(text, sep + 4, end))
    IN IF start = sep
       THEN [cursor |-> sep + 3, out |-> SubSeq(text, cursor + 1, sep + 3)]
       ELSE [cursor |-> end,
             out |-> SubSeq(text, cursor + 1, start) \o IF wanted THEN Base ELSE link]

-----------------------------------------------------------------------------
(* The loop of swap_authorities.                                           *)

VARIABLES
    phase,     \* "swapping" or "swapped"
    text,      \* the text,
    all,       \* whether any authority is wanted,
    cursor,    \* the offset it has got to
    written    \* and what it has written

swapVars == <<text, all, cursor, written>>

\* swap_authorities up to its loop: for the target alone, as in a Link header or
\* util::rewrite_links_text, or for any authority, as in a Location.
SwapInit ==
    /\ phase = "swapping"
    /\ text \in Texts /\ all \in BOOLEAN
    /\ cursor = 0 /\ written = <<>>

SwapTurn ==
    /\ phase = "swapping"
    /\ \E sep \in FindSeparator(text, cursor) :
        LET turn == Turn(text, cursor, sep, all)
        IN cursor' = turn.cursor /\ written' = written \o turn.out
    /\ UNCHANGED <<phase, text, all>>

EndSwap ==
    /\ phase = "swapping" /\ FindSeparator(text, cursor) = {}
    /\ phase' = "swapped" /\ written' = written \o SubSeq(text, cursor + 1, Len(text))
    /\ UNCHANGED <<text, all, cursor>>

SwapNext == SwapTurn \/ EndSwap

SwapSpec == SwapInit /\ [][SwapNext]_<<phase, swapVars>>

-----------------------------------------------------------------------------
\* The slices swap_authorities takes are in order: the walk back over the scheme
\* stops at the cursor, so that none of them panics.
SlicesInOrder ==
    phase = "swapping" =>
        \A sep \in FindSeparator(text, cursor) :
            /\ cursor <= SchemeStart(text, sep)
            /\ SchemeStart(text, sep) <= sep
            /\ sep + 3 <= AuthorityEnd(text, sep + 3)

\* A URL of the text t begins at i and its authority at j.
UrlAt(t, i, j) ==
    /\ t[i] \in Letters
    /\ i > 1 => t[i - 1] \notin SchemeChars
    /\ i < j - 3 /\ SubSeq(t, j - 3, j - 1) = Separator
    /\ \A n \in i .. j - 4 : t[n] \in SchemeChars

\* It stands inside the authority of an earlier one.
Buried(t, i) ==
    \E h \in 1 .. i - 1 : \E j \in h .. i :
        UrlAt(t, h, j) /\ \A n \in j .. i - 1 : t[n] \notin Delimiters

\* The authority that begins at j is the BMC, with or without a port.
NamesTarget(t, j) ==
    /\ j <= Len(t) /\ t[j] = "B"
    /\ \E end \in j .. Len(t) :
        /\ end = Len(t) \/ t[end + 1] \in Delimiters
        /\ \/ end = j
           \/ end > j + 1 /\ t[j + 1] = ":" /\ \A n \in j + 2 .. end : t[n] = "9"

TargetLinkAt(t, i) == \E j \in i .. Len(t) : UrlAt(t, i, j) /\ NamesTarget(t, j)
HoldsNoLink(t) == \A i \in DOMAIN t : TargetLinkAt(t, i) => Buried(t, i)

\* No link to the BMC is left in a text that was swapped, at any port and beside
\* whatever other links; and a Location names no one but the proxy.
NoTargetLinkLeft ==
    phase = "swapped" =>
        /\ HoldsNoLink(written)
        /\ all => \A i, j \in DOMAIN written : UrlAt(written, i, j) => written[j] = "P"

\* A text in which no link names the BMC is left as it is, foreign links, ports,
\* and things that only look like links included.
ForeignKept ==
    phase = "swapped" /\ ~all /\ (\A i \in DOMAIN text : ~TargetLinkAt(text, i)) =>
        written = text
=============================================================================
