---------------------------- MODULE MCEmbedPhase ----------------------------
EXTENDS EmbedPhase

CONSTANTS ix, s1, t1, t2, t3, t4

MCQueue == <<t1, t2, t3, t4>>
MCTokens == <<1, 1, 2, 1>>
============================================================================
