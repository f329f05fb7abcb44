----------------------------- MODULE MCFollowUps -----------------------------
EXTENDS FollowUps
=============================================================================
