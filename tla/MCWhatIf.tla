------------------------------- MODULE MCWhatIf -------------------------------
EXTENDS WhatIf
=============================================================================
