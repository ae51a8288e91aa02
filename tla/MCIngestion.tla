---------------------------- MODULE MCIngestion ----------------------------
EXTENDS Ingestion, TLC

MCPrivateSnapshots == [m \in Manual |-> m]
MCSharedSnapshot == [m \in Manual |-> "20260422091942"]
=============================================================================
