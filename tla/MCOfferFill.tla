----------------------------- MODULE MCOfferFill -----------------------------
(***************************************************************************)
(* Instance of OfferFill for TLC: the constants' values are in the cfg.    *)
(***************************************************************************)
EXTENDS OfferFillProps

CONSTANTS o1
=============================================================================
