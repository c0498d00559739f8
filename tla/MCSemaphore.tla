----------------------------- MODULE MCSemaphore -----------------------------
EXTENDS Semaphore
CONSTANT Threshold
MCinitVal == 1 - Threshold
=============================================================================
