-------------------------- MODULE MCDialectConfig --------------------------
EXTENDS DialectConfig

CONSTANTS g1, g2, g3, neutral, unknown, group_by, block_comment

MCAdmitted == [d \in Configured |-> {group_by, block_comment}]
=============================================================================
