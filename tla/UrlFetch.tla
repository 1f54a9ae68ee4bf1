------------------------------ MODULE UrlFetch ------------------------------
(***************************************************************************)
(* Fetching a page for the knowledge base (services/url_fetch.py): every   *)
(* URL of a redirect chain is parsed, resolved and checked before it is    *)
(* asked for, the chain and the body are bounded, and what cannot be read  *)
(* is refused.  What names resolve to changes under the fetch.             *)
(***************************************************************************)
EXTENDS Naturals

CONSTANTS
    Urls,         \* URLs of the chain: parsable or not
    Parsable,     \* ... those with a scheme fetched and a host
    MaxRedirects, \* MAX_REDIRECTS
    MaxBytes,     \* MAX_URL_BYTES
    Pieces        \* bound: sizes of what the body arrives in

ASSUME FetchAssumption ==
    /\ Urls # {} /\ Parsable \subseteq Urls
    /\ MaxRedirects \in Nat /\ MaxBytes \in Nat /\ Pieces \subseteq Nat \ {0}

VARIABLES
    routable, \* the URLs whose hosts resolve to public addresses now
    fetching, \* the fetch
    hops      \* what it asked for, hop by hop: the URL, and whether it was routable at its check

fetchVars == <<routable, fetching, hops>>

Fetching == [pc : {"idle", "parse", "check", "ask", "read", "fetched", "refused"},
             at : Urls, left : 0 .. MaxRedirects + 1, bytes : Nat]

FetchTypeOK ==
    /\ routable \subseteq Parsable
    /\ fetching \in Fetching
    /\ hops \subseteq [left : 0 .. MaxRedirects + 1, at : Urls, checked : BOOLEAN]

To(pc) == fetching' = [fetching EXCEPT !.pc = pc]

-----------------------------------------------------------------------------
\* The name service answers differently from now on.
NamesChange(set) == routable' = set /\ UNCHANGED <<fetching, hops>>

\* fetch, for a URL somebody names.
FetchUrl(url) ==
    /\ fetching.pc = "idle"
    /\ fetching' = [pc |-> "parse", at |-> url, left |-> MaxRedirects + 1, bytes |-> 0]
    /\ UNCHANGED <<routable, hops>>

\* The next round of its loop, and _parse; the loop may be over.
Parse ==
    /\ fetching.pc = "parse"
    /\ IF fetching.left = 0 \/ fetching.at \notin Parsable THEN To("refused") ELSE To("check")
    /\ UNCHANGED <<routable, hops>>

\* A slip: only the URL the request named is checked.
SlipAssertRoutable ==
    /\ fetching.pc = "check"
    /\ IF fetching.left = MaxRedirects + 1 /\ fetching.at \notin routable
       THEN To("refused") /\ UNCHANGED hops
       ELSE /\ To("ask")
            /\ hops' = hops \cup {[left |-> fetching.left, at |-> fetching.at,
                                   checked |-> fetching.at \in routable]}
    /\ UNCHANGED routable

\* _assert_routable: every address the host resolves to is public.
AssertRoutable ==
    /\ fetching.pc = "check"
    /\ IF fetching.at \notin routable THEN To("refused") /\ UNCHANGED hops
       ELSE /\ To("ask")
            /\ hops' = hops \cup {[left |-> fetching.left, at |-> fetching.at,
                                   checked |-> fetching.at \in routable]}
    /\ UNCHANGED routable

\* ... one of the loop's rounds is spent.
Redirected(url) == [pc |-> "parse", at |-> url, left |-> fetching.left - 1, bytes |-> 0]

\* The answer is a redirect, with a location that is not unusably long.
Redirect(url) ==
    /\ fetching.pc = "ask"
    /\ fetching' = Redirected(url)
    /\ UNCHANGED <<routable, hops>>

\* The host cannot be reached, or answers an error, a redirect to nowhere or a
\* type that is not readable.
Unusable ==
    /\ fetching.pc \in {"ask", "read"}
    /\ To("refused")
    /\ UNCHANGED <<routable, hops>>

BodyBegins ==
    /\ fetching.pc = "ask"
    /\ To("read")
    /\ UNCHANGED <<routable, hops>>

\* _read_capped, for a piece that arrives.
ReadPiece(n) ==
    /\ fetching.pc = "read"
    /\ fetching' = IF fetching.bytes + n > MaxBytes THEN [fetching EXCEPT !.pc = "refused"]
                   ELSE [fetching EXCEPT !.bytes = @ + n]
    /\ UNCHANGED <<routable, hops>>

BodyEnds ==
    /\ fetching.pc = "read"
    /\ To("fetched")
    /\ UNCHANGED <<routable, hops>>

-----------------------------------------------------------------------------
FetchInit ==
    /\ routable = Parsable
    /\ fetching = [pc |-> "idle", at |-> CHOOSE url \in Urls : TRUE,
                   left |-> MaxRedirects + 1, bytes |-> 0]
    /\ hops = {}

FetchStep ==
    \/ Parse \/ AssertRoutable \/ Unusable \/ BodyBegins \/ BodyEnds
    \/ \E url \in Urls : Redirect(url)
    \/ \E n \in Pieces : ReadPiece(n)

FetchNext ==
    \/ FetchStep
    \/ \E url \in Urls : FetchUrl(url)
    \/ \E set \in SUBSET Parsable : NamesChange(set)

FetchSpec == FetchInit /\ [][FetchNext]_fetchVars

-----------------------------------------------------------------------------
\* Whatever is asked for, at every hop, was found routable at that hop; a chain
\* that goes round asks once in each of its rounds, of which there are
\* MaxRedirects + 1; a page that is returned is within the cap.
EveryHopIsChecked ==
    /\ FetchTypeOK /\ \A h \in hops : h.checked /\ h.at \in Parsable
    /\ \A g, h \in hops : g.left = h.left => g = h
    /\ \A h \in hops : h.left \in 1 .. MaxRedirects + 1
    /\ fetching.pc \in {"ask", "read", "fetched"} =>
          \E h \in hops : h.left = fetching.left /\ h.at = fetching.at
    /\ fetching.pc = "fetched" => fetching.bytes <= MaxBytes
=============================================================================
