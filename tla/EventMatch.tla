----------------------------- MODULE EventMatch -----------------------------
(***************************************************************************)
(* Event-type filters of app/whatsapp/dispatcher.go.                       *)
(*                                                                         *)
(* Event types and filters are strings in the code.  Here each is the      *)
(* sequence of its lexemes: "message.received" is                          *)
(* <<"message", ".", "received">> and "message.*" is                       *)
(* <<"message", ".", "*">>.  strings.HasPrefix becomes the prefix relation *)
(* on sequences; an alphabet that splits a word (<<"mess", "age", ...>>)   *)
(* lets a model exhibit prefixes that end inside a word.                   *)
(***************************************************************************)
EXTENDS Naturals, Sequences

\* strings.HasPrefix(s, p)
HasPrefix(s, p) == Len(p) <= Len(s) /\ SubSeq(s, 1, Len(p)) = p

\* strings.HasSuffix(s, p)
HasSuffix(s, p) ==
    Len(p) <= Len(s) /\ SubSeq(s, Len(s) - Len(p) + 1, Len(s)) = p

Star == <<"*">>
DotStar == <<".", "*">>

\* One entry of WebhookTarget.Events against an event type: equality, the
\* catch-all, or "prefix.*", whose dot is cut off with the star.
entryMatches(e, eventType) ==
    \/ e = eventType
    \/ e = Star
    \/ HasSuffix(e, DotStar) /\ HasPrefix(eventType, SubSeq(e, 1, Len(e) - 2))

\* EventDispatcher.matchesEvent: an empty list subscribes to everything.
matchesEvent(subscribed, eventType) ==
    \/ subscribed = <<>>
    \/ \E k \in 1 .. Len(subscribed) : entryMatches(subscribed[k], eventType)
=============================================================================
