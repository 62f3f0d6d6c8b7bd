----------------------------- MODULE MCTeamChat -----------------------------
(***************************************************************************)
(* TeamChat bounded: two submissions at once.  A conversation is followed  *)
(* until it holds two messages.                                            *)
(***************************************************************************)
EXTENDS TeamChat

Bounded == Len(messages) + crashes <= 2
=============================================================================
